---- MODULE Spec2Model ----
(***************************************************************************)
(* WattAudit: the hybrid anomaly scoring engine (feature scaling, score    *)
(* fusion, rule flags, percentile thresholding, persistence filter), the   *)
(* calibration loops, the synthetic anomaly injector and the serving       *)
(* modules that load the persisted artifacts.                              *)
(*                                                                         *)
(* Real-valued columns are carried as integer numerators over a            *)
(* denominator that is the same for every row of a batch, so comparisons   *)
(* within a batch are exact.  Ratios and cutoffs are in hundredths.        *)
(***************************************************************************)
EXTENDS Integers, Sequences, FiniteSets, TLC

VARIABLES
    df,         \* scoring scripts: the batch read by the script (sequence of rows)
    run,        \* scoring scripts: which script has run on df ("none" before)
    out,        \* scoring scripts: the columns the script computed
    gi,         \* tune_and_train.py: candidates of param_list the loop has taken
    results,    \* tune_and_train.py: the rows of the tuning table
    best,       \* tune_and_train.py: the retained candidate
    gpc,        \* tune_and_train.py: position of the script
    gfiles,     \* tune_and_train.py: the files the script has written
    files,      \* artifacts on disk: path -> [state, ver]
    tpc,        \* train_model.py: position of the current run
    tver,       \* train_model.py: number of the run (the version of what it fits)
    mods,       \* the serving modules: "down", "crashed", or what they loaded at import
    resp,       \* the last response of an endpoint or scoring script
    idf,        \* injector: the batch passed in, a set of (customer, month) rows
    fracs,      \* injector: customer_frac and months_frac, in hundredths
    odf,        \* injector: the batch returned
    ipc,        \* injector: "ready" before the call, "loop" inside it, "done" after
    lp,         \* injector: chosen_customers, cust and chosen_months of the loops
    rng,        \* numpy's global generator: the seed it was last given and the draws since
    memo,       \* what the generator yields from a given state, as far as observed
    calls,      \* the injector calls made so far: [seed, out]
    csv,        \* train_model.py run: the rows of the dataset file, in file order
    tdf,        \* train_model.py run: the frame df of the script
    tstep,      \* train_model.py run: the statement group the script has reached
    scores,     \* percentile cut: the final scores of a batch
    cut,        \* percentile cut: who cut, at which percentile, and the labels
    fstore,     \* feature paths: the rows of the dataset (file or table), in stored order
    fout,       \* feature paths: which path ran, from which source, and its frame
    sdf,        \* split_by_customer: the frame passed in (rows with their customer_id)
    sfrac,      \* split_by_customer: train_frac, in hundredths
    sout,       \* split_by_customer: the pair returned
    pkl,        \* models/best_params.pkl: the parameters tune_model.py dumped, if any
    logf,       \* data/metrics_log.csv: whether it exists and the rows it holds
    evals,      \* runs of evaluate_and_log.py: position and the log frame in memory
    completed,  \* the runs of evaluate_and_log.py that completed, in order of completion
    lfile,      \* the stored local dataset file (LOCAL_DATA_PATH)
    upl,        \* the file of the last upload_dataset request
    uresp,      \* what upload_dataset returned for it
    adf,        \* the frame add_features was last applied to, or returned
    afirst,     \* the frame the first application returned
    napp,       \* the applications of add_features so far
    jorig,      \* the batch as it was when the injector was called
    jin,        \* the caller's batch
    jout,       \* the batch the injector returned
    jsel,       \* the rows the injector corrupted
    grow,       \* the row generate_reason was last called with
    greason,    \* what it returned
    bfile,      \* the local dataset file (LOCAL_DATA_PATH) of the backend
    bup,        \* whether backend/main.py has been imported
    neon,       \* whether NEON_CONN is configured
    dflocal,    \* df_local, the frame loaded at import
    bresp,      \* the response to the last data request
    pfiles,     \* the dataset and the output files of the pipeline's stages
    ppc,        \* the statement pipeline.py is at
    pexit,      \* how each stage's process ended
    pread       \* the state of the files a stage read

scoreVars == <<df, run, out>>
gridVars == <<gi, results, best, gpc, gfiles>>
serveVars == <<files, tpc, tver, mods, resp>>
seedVars == <<rng, memo, calls>>
injectVars == <<idf, fracs, odf, ipc, lp, seedVars>>
trainRunVars == <<csv, tdf, tstep>>
cutVars == <<scores, cut>>
featVars == <<fstore, fout>>
splitVars == <<sdf, sfrac, sout>>
paramVars == <<pkl>>
logVars == <<logf, evals, completed>>
uploadVars == <<lfile, upl, uresp>>
refeatVars == <<adf, afirst, napp>>
frameVars == <<jorig, jin, jout, jsel>>
reasonVars == <<grow, greason>>
backendVars == <<bfile, bup, neon, dflocal, bresp>>
pipelineVars == <<pfiles, ppc, pexit, pread>>
vars == <<scoreVars, gridVars, serveVars, injectVars, trainRunVars, cutVars, featVars, splitVars, paramVars, logVars, uploadVars, refeatVars, frameVars, reasonVars, backendVars, pipelineVars>>

\* what the scoring scripts leave alone
otherThanScore == <<gridVars, serveVars, injectVars, trainRunVars, cutVars, featVars, splitVars, paramVars, logVars, uploadVars, refeatVars, frameVars, reasonVars, backendVars, pipelineVars>>
\* what tune_and_train.py's grid search leaves alone
otherThanGrid == <<scoreVars, serveVars, injectVars, trainRunVars, cutVars, featVars, splitVars, paramVars, logVars, uploadVars, refeatVars, frameVars, reasonVars, backendVars, pipelineVars>>
\* what training and serving leave alone
otherThanServe == <<scoreVars, gridVars, injectVars, trainRunVars, cutVars, featVars, splitVars, paramVars, logVars, uploadVars, refeatVars, frameVars, reasonVars, backendVars, pipelineVars>>
\* what the injector leaves alone
otherThanInject == <<scoreVars, gridVars, serveVars, trainRunVars, cutVars, featVars, splitVars, paramVars, logVars, uploadVars, refeatVars, frameVars, reasonVars, backendVars, pipelineVars>>
\* what the traced run of train_model.py leaves alone
otherThanTrainRun == <<scoreVars, gridVars, serveVars, injectVars, cutVars, featVars, splitVars, paramVars, logVars, uploadVars, refeatVars, frameVars, reasonVars, backendVars, pipelineVars>>
\* what the percentile cut on given scores leaves alone
otherThanCut == <<scoreVars, gridVars, serveVars, injectVars, trainRunVars, featVars, splitVars, paramVars, logVars, uploadVars, refeatVars, frameVars, reasonVars, backendVars, pipelineVars>>
\* what the feature computation of a path leaves alone
otherThanFeat == <<scoreVars, gridVars, serveVars, injectVars, trainRunVars, cutVars, splitVars, paramVars, logVars, uploadVars, refeatVars, frameVars, reasonVars, backendVars, pipelineVars>>
\* what split_by_customer leaves alone
otherThanSplit == <<scoreVars, gridVars, serveVars, injectVars, trainRunVars, cutVars, featVars, paramVars, logVars, uploadVars, refeatVars, frameVars, reasonVars, backendVars, pipelineVars>>
\* what best_params.pkl leaves alone
otherThanParams == <<scoreVars, gridVars, serveVars, injectVars, trainRunVars, cutVars, featVars, splitVars, logVars, uploadVars, refeatVars, frameVars, reasonVars, backendVars, pipelineVars>>
\* what a scoring script run after tune_model.py leaves alone
otherThanScoreParams == <<gridVars, serveVars, injectVars, trainRunVars, cutVars, featVars, splitVars, logVars, uploadVars, refeatVars, frameVars, reasonVars, backendVars, pipelineVars>>
\* what the metrics log leaves alone
otherThanLog == <<scoreVars, gridVars, serveVars, injectVars, trainRunVars, cutVars, featVars, splitVars, paramVars, uploadVars, refeatVars, frameVars, reasonVars, backendVars, pipelineVars>>
\* what upload_dataset leaves alone
otherThanUpload == <<scoreVars, gridVars, serveVars, injectVars, trainRunVars, cutVars, featVars, splitVars, paramVars, logVars, refeatVars, frameVars, reasonVars, backendVars, pipelineVars>>
\* what add_features applied again leaves alone
otherThanRefeat == <<scoreVars, gridVars, serveVars, injectVars, trainRunVars, cutVars, featVars, splitVars, paramVars, logVars, uploadVars, frameVars, reasonVars, backendVars, pipelineVars>>
\* what the injector on a featured batch leaves alone
otherThanFrame == <<scoreVars, gridVars, serveVars, injectVars, trainRunVars, cutVars, featVars, splitVars, paramVars, logVars, uploadVars, refeatVars, reasonVars, backendVars, pipelineVars>>
\* what generate_reason leaves alone
otherThanReason == <<scoreVars, gridVars, serveVars, injectVars, trainRunVars, cutVars, featVars, splitVars, paramVars, logVars, uploadVars, refeatVars, frameVars, backendVars, pipelineVars>>
\* what the data endpoints of backend/main.py leaves alone
otherThanBackend == <<scoreVars, gridVars, serveVars, injectVars, trainRunVars, cutVars, featVars, splitVars, paramVars, logVars, uploadVars, refeatVars, frameVars, reasonVars, pipelineVars>>
\* what pipeline.py leaves alone
otherThanPipeline == <<scoreVars, gridVars, serveVars, injectVars, trainRunVars, cutVars, featVars, splitVars, paramVars, logVars, uploadVars, refeatVars, frameVars, reasonVars, backendVars>>

\* model = None
NONE == -1
\* best_params.pkl does not exist
NoParams == [alpha |-> NONE, under_cutoff |-> NONE, over_cutoff |-> NONE]

\* no scoring script is part of the run
ScoreIdle == df = <<>> /\ run = "idle" /\ out = <<>>
\* tune_and_train.py is not part of the run
GridIdle == gi = 0 /\ results = <<>> /\ best = <<>> /\ gpc = "idle" /\ gfiles = <<>>
\* neither training nor a serving module is part of the run
ServeIdle == files = <<>> /\ tpc = "idle" /\ tver = 0 /\ mods = <<>> /\ resp = <<>>
\* the injector is not part of the run
SeedIdle == rng = <<>> /\ memo = {} /\ calls = <<>>
InjectIdle == idf = {} /\ fracs = <<>> /\ odf = {} /\ ipc = "idle" /\ lp = <<>> /\ SeedIdle
\* the traced run of train_model.py is not part of the run
TrainRunIdle == csv = <<>> /\ tdf = <<>> /\ tstep = "idle"
\* the percentile cut on given scores is not part of the run
CutIdle == scores = <<>> /\ cut = <<>>
\* the feature computation of a path is not part of the run
FeatIdle == fstore = <<>> /\ fout = <<>>
\* split_by_customer is not part of the run
SplitIdle == sdf = <<>> /\ sfrac = 0 /\ sout = <<>>
\* best_params.pkl is not part of the run
ParamsIdle == pkl = NoParams
\* the metrics log is not part of the run
LogIdle == logf = <<>> /\ evals = <<>> /\ completed = <<>>
\* upload_dataset is not part of the run
UploadIdle == lfile = <<>> /\ upl = <<>> /\ uresp = <<>>
\* add_features applied again is not part of the run
RefeatIdle == adf = <<>> /\ afirst = <<>> /\ napp = 0
\* the injector on a featured batch is not part of the run
FrameIdle == jorig = <<>> /\ jin = <<>> /\ jout = <<>> /\ jsel = {}
\* generate_reason is not part of the run
ReasonIdle == grow = <<>> /\ greason = "idle"
\* the data endpoints of backend/main.py is not part of the run
BackendIdle == bfile = <<>> /\ bup = "idle" /\ neon = FALSE /\ dflocal = <<>> /\ bresp = <<>>
\* pipeline.py is not part of the run
PipelineIdle == pfiles = <<>> /\ ppc = "idle" /\ pexit = <<>> /\ pread = <<>>

----------------------------------------------------------------------------
(* Bounds of the model *)

\* rows of a scored batch
MaxRows == 2
\* rows of a batch whose persistence is computed from a given label mask
MaxMonths == 4
\* candidates in param_list of tune_and_train.py (288 in the source grid)
NCand == 3
\* runs of train_model.py (a second run is a retrain over existing artifacts)
MaxTrainRuns == 2
\* customers of a batch given to the injector
MaxCust == 2
\* months of one customer in a batch given to the injector
MaxMonthsPer == 2
\* injector calls of one process
MaxCalls == 2
\* rows of a batch of given final scores
MaxScores == 3
\* rows of a dataset whose features a path computes
MaxFeatRows == 3
\* rows of a frame given to split_by_customer
MaxSplitRows == 4
\* runs of evaluate_and_log.py
MaxEvalRuns == 3
\* rows of an uploaded dataset file
MaxUploadRows == 2
\* rows of a frame add_features is applied to again, and the applications
MaxRefeatRows == 2
MaxApplications == 3
\* rows of a featured batch handed to the injector
MaxFrameRows == 2
\* successful uploads to one backend process
MaxUploads == 2
\* draws other code of the process makes from the global generator between
\* reseedings
MaxDraws == 2

----------------------------------------------------------------------------
(* Column helpers *)

Range(s) == {s[i] : i \in DOMAIN s}

Min(S) == CHOOSE x \in S : \A y \in S : x <= y

Max(S) == CHOOSE x \in S : \A y \in S : x >= y

Abs(x) == IF x < 0 THEN -x ELSE x

Col(d, c) == [i \in DOMAIN d |-> d[i][c]]

\* sklearn MinMaxScaler().fit_transform on one column: x - min over the data
\* range, a zero range being replaced by 1 (a constant column maps to 0).
MinMaxDen(col) ==
    IF Max(Range(col)) = Min(Range(col)) THEN 1 ELSE Max(Range(col)) - Min(Range(col))

MinMaxNum(col) == [i \in DOMAIN col |-> col[i] - Min(Range(col))]

\* Series.quantile(q) / np.percentile(col, pct), linear interpolation,
\* returned times 100: position (n-1)*pct/100 in the sorted column.
Percentile100(col, pct) ==
    LET s  == SortSeq(col, LAMBDA a, b : a < b)
        h  == (Len(col) - 1) * pct
        lo == h \div 100
        fr == h % 100
    IN  IF fr = 0 THEN 100 * s[lo + 1]
        ELSE 100 * s[lo + 1] + fr * (s[lo + 2] - s[lo + 1])

\* the mask final_score < threshold
Below(final, pct) == [i \in DOMAIN final |-> 100 * final[i] < Percentile100(final, pct)]

\* the mask final_score <= threshold
BelowOrEqual(final, pct) ==
    [i \in DOMAIN final |-> 100 * final[i] <= Percentile100(final, pct)]

\* df.groupby("customer_id")[col].rolling(2).sum().ge(2).astype(int): the first
\* row of a customer has an undefined (NaN) window, which .ge(2) makes False.
Rolling2Ge2(col, cust) ==
    [i \in DOMAIN col |->
        IF i > 1 /\ cust[i - 1] = cust[i] /\ col[i - 1] + col[i] >= 2 THEN 1 ELSE 0]

----------------------------------------------------------------------------
(* Program constants, in hundredths where they are fractions *)

\* train_model.py / evaluate_and_log.py: (df["ratio"] < 0.85)
UNDER_CUTOFF == 85
\* train_model.py / evaluate_and_log.py: (df["ratio"] > 1.3)
OVER_CUTOFF == 130
\* quantile(0.05), np.percentile(final_score, 5)
THRESHOLD_PCT == 5
\* default "alpha": 0.5
DEFAULT_ALPHA == 50

\* "rule_weight" of the grid in tune_and_train.py is a whole number; the
\* penalty of the other scripts is rule_flag * 0.2
RULE_PENALTY == 20

----------------------------------------------------------------------------
(* Score fusion, rule flags, thresholding and persistence, script by script *)

\* LocalOutlierFactor.fit_predict / predict: -1 where the decision value is
\* negative, 1 elsewhere
LofPred(lofd) == [i \in DOMAIN lofd |-> IF lofd[i] < 0 THEN -1 ELSE 1]

\* under_flag | over_flag
RuleFlag(ratio, under, over) ==
    [i \in DOMAIN ratio |-> IF ratio[i] < under \/ ratio[i] > over THEN 1 ELSE 0]

\* tune_and_train.py evaluate_combo: (val_df["ratio"] < params["rule_ratio_cutoff"])
RuleFlagCombo(ratio, cutoff) ==
    [i \in DOMAIN ratio |-> IF ratio[i] < cutoff THEN 1 ELSE 0]

\* iso_norm, lof_norm = MinMaxScaler on iso_score and on abs(lof_pred);
\* combined_score = alpha * iso_norm + (1 - alpha) * lof_norm, as numerators
\* over 100 * MinMaxDen(iso) * MinMaxDen(abs(lof_pred))
CombinedScore(iso, lof_pred, alpha) ==
    LET lofabs == [i \in DOMAIN lof_pred |-> Abs(lof_pred[i])]
    IN  [i \in DOMAIN iso |->
            alpha * MinMaxNum(iso)[i] * MinMaxDen(lofabs)
            + (100 - alpha) * MinMaxNum(lofabs)[i] * MinMaxDen(iso)]

\* final_score = combined_score - rule_flag * 0.2, as numerators over
\* 10000 * MinMaxDen(iso) * MinMaxDen(abs(lof_pred))
FinalScore(iso, lof_pred, alpha, rule_flag) ==
    LET lofabs == [i \in DOMAIN lof_pred |-> Abs(lof_pred[i])]
    IN  [i \in DOMAIN iso |->
            100 * CombinedScore(iso, lof_pred, alpha)[i]
            - rule_flag[i] * RULE_PENALTY * 100 * MinMaxDen(iso) * MinMaxDen(lofabs)]

\* evaluate_combo: alpha * iso_val + (1 - alpha) * lof_val - rule_weight * rule_flag
\* on the raw decision values, as numerators over 100
FinalScoreCombo(iso_val, lof_val, alpha, rule_weight, rule_flag) ==
    [i \in DOMAIN iso_val |->
        alpha * iso_val[i] + (100 - alpha) * lof_val[i] - 100 * rule_weight * rule_flag[i]]

\* train_model.py: np.where(final_score < threshold, -1, 1)
AnomalyLabelTrain(below) == [i \in DOMAIN below |-> IF below[i] THEN -1 ELSE 1]

\* evaluate_and_log.py: (final_score < threshold).astype(int)
AnomalyLabelEval(below) == [i \in DOMAIN below |-> IF below[i] THEN 1 ELSE 0]

\* train_model.py: rolling(2).apply(lambda x: (x == -1).sum()).ge(2)
PersistentTrain(anomaly_label, cust) ==
    Rolling2Ge2([i \in DOMAIN anomaly_label |-> IF anomaly_label[i] = -1 THEN 1 ELSE 0], cust)

\* a slip: the evaluation counts labels equal to -1, as training does, although
\* its own label is 0/1
PersistentEvalCountsMinusOne(anomaly_label, cust) == PersistentTrain(anomaly_label, cust)

\* evaluate_and_log.py: rolling(2).sum().ge(2) on the 0/1 label
PersistentEval(anomaly_label, cust) == Rolling2Ge2(anomaly_label, cust)

\* tune_model.py objective: rolling(2).sum().ge(2) on the -1/1 predictions
PersistentObjective(preds, cust) == Rolling2Ge2(preds, cust)

\* train_model.py, steps 4 to 5 (the scores of the two fitted models are inputs)
TrainModel(d, alpha) ==
    LET rule_flag   == RuleFlag(Col(d, "ratio"), UNDER_CUTOFF, OVER_CUTOFF)
        final_score == FinalScore(Col(d, "iso"), LofPred(Col(d, "lofd")), alpha, rule_flag)
        label       == AnomalyLabelTrain(Below(final_score, THRESHOLD_PCT))
    IN  [rule_flag |-> rule_flag, final_score |-> final_score,
         threshold100 |-> Percentile100(final_score, THRESHOLD_PCT),
         anomaly_label |-> label,
         persistent_anomaly |-> PersistentTrain(label, Col(d, "customer_id"))]

\* evaluate_and_log.py, steps 1 to 4
EvaluateAndLog(d, alpha) ==
    LET rule_flag   == RuleFlag(Col(d, "ratio"), UNDER_CUTOFF, OVER_CUTOFF)
        final_score == FinalScore(Col(d, "iso"), LofPred(Col(d, "lofd")), alpha, rule_flag)
        label       == AnomalyLabelEval(Below(final_score, THRESHOLD_PCT))
    IN  [rule_flag |-> rule_flag, final_score |-> final_score,
         threshold100 |-> Percentile100(final_score, THRESHOLD_PCT),
         anomaly_label |-> label,
         persistent_anomaly |-> PersistentEval(label, Col(d, "customer_id"))]

\* tune_model.py objective, one trial
Objective(d, alpha, under_cutoff, over_cutoff) ==
    LET rule_flag   == RuleFlag(Col(d, "ratio"), under_cutoff, over_cutoff)
        final_score == FinalScore(Col(d, "iso"), LofPred(Col(d, "lofd")), alpha, rule_flag)
        preds       == AnomalyLabelTrain(Below(final_score, THRESHOLD_PCT))
    IN  [rule_flag |-> rule_flag, final_score |-> final_score,
         threshold100 |-> Percentile100(final_score, THRESHOLD_PCT),
         anomaly_label |-> preds,
         persistent_anomaly |-> PersistentObjective(preds, Col(d, "customer_id"))]

\* tune_and_train.py evaluate_combo, scoring val_df under one grid candidate
EvaluateCombo(d, params) ==
    LET rule_flag   == RuleFlagCombo(Col(d, "ratio"), params.rule_ratio_cutoff)
        final_score == FinalScoreCombo(Col(d, "iso"), Col(d, "lofd"), params.alpha,
                                       params.rule_weight, rule_flag)
        pred        == AnomalyLabelTrain(BelowOrEqual(final_score, params.threshold_pct))
    IN  [rule_flag |-> rule_flag, final_score |-> final_score,
         threshold100 |-> Percentile100(final_score, params.threshold_pct),
         anomaly_label |-> pred,
         persistent_anomaly |-> [i \in DOMAIN d |-> 0]]

----------------------------------------------------------------------------
(* Inputs of the scoring scripts *)

\* ratios around the two default cutoffs, in hundredths
RatioVals == {84, 85, 130, 131}

\* score of the isolation model for a row
IsoVals == {0, 1}

\* decision value of the density model for a row
LofVals == {-1, 1}

\* customer ids are in ascending order in a sorted batch and start at 1
SortedCust(d) ==
    /\ d[1].customer_id = 1
    /\ \A i \in 2..Len(d) : d[i].customer_id \in {d[i - 1].customer_id, d[i - 1].customer_id + 1}

ScoreRows == [customer_id : 1..MaxRows, ratio : RatioVals, iso : IsoVals, lofd : LofVals]

ScoreBatches ==
    {d \in UNION {[1..n -> ScoreRows] : n \in 1..MaxRows} : SortedCust(d)}

\* best_params["alpha"]: the default, or a value tune_model.py drew from [0.3, 0.9]
AlphaVals == {DEFAULT_ALPHA, 30, 90}

\* trial.suggest_float("under_cutoff", 0.75, 0.9), ("over_cutoff", 1.2, 1.4)
UnderVals == {75, 90}

OverVals == {120, 140}

\* the grid of tune_and_train.py (the keys the scoring reads)
GridParams ==
    [alpha : {70, 85, 100}, rule_weight : {0, 2}, rule_ratio_cutoff : {85},
     threshold_pct : {2, 5}]

NoOut == [rule_flag |-> <<>>, final_score |-> <<>>, threshold100 |-> 0,
          anomaly_label |-> <<>>, persistent_anomaly |-> <<>>]

InitScore ==
    /\ df \in ScoreBatches
    /\ run = "none"
    /\ out = NoOut
    /\ GridIdle
    /\ ServeIdle
    /\ InjectIdle
    /\ TrainRunIdle
    /\ CutIdle
    /\ FeatIdle
    /\ SplitIdle
    /\ ParamsIdle
    /\ LogIdle
    /\ UploadIdle
    /\ RefeatIdle
    /\ FrameIdle
    /\ ReasonIdle
    /\ BackendIdle
    /\ PipelineIdle

TrainModelRun ==
    /\ run = "none"
    /\ \E alpha \in AlphaVals : out' = TrainModel(df, alpha)
    /\ run' = "train_model"
    /\ UNCHANGED <<df, otherThanScore>>

EvaluateAndLogRun ==
    /\ run = "none"
    /\ \E alpha \in AlphaVals : out' = EvaluateAndLog(df, alpha)
    /\ run' = "evaluate_and_log"
    /\ UNCHANGED <<df, otherThanScore>>

ObjectiveRun ==
    /\ run = "none"
    /\ \E alpha \in AlphaVals \ {DEFAULT_ALPHA}, u \in UnderVals, o \in OverVals :
          out' = Objective(df, alpha, u, o) @@ [under_cutoff |-> u, over_cutoff |-> o]
    /\ run' = "tune_model"
    /\ UNCHANGED <<df, otherThanScore>>

EvaluateComboRun ==
    /\ run = "none"
    /\ \E params \in GridParams : out' = EvaluateCombo(df, params) @@ [params |-> params]
    /\ run' = "tune_and_train"
    /\ UNCHANGED <<df, otherThanScore>>

NextScore ==
    \/ TrainModelRun
    \/ EvaluateAndLogRun
    \/ ObjectiveRun
    \/ EvaluateComboRun

SpecScore == InitScore /\ [][NextScore]_vars

----------------------------------------------------------------------------
(* The persistence filter on a given label mask.  The rows are those of a   *)
(* few customers inside a larger batch, so any mask final_score < threshold *)
(* can occur on them.                                                       *)

MaskRows == [customer_id : 1..MaxMonths, below : BOOLEAN]

MaskBatches ==
    {d \in UNION {[1..n -> MaskRows] : n \in 1..MaxMonths} : SortedCust(d)}

InitPersist ==
    /\ df \in MaskBatches
    /\ run = "none"
    /\ out = NoOut
    /\ GridIdle
    /\ ServeIdle
    /\ InjectIdle
    /\ TrainRunIdle
    /\ CutIdle
    /\ FeatIdle
    /\ SplitIdle
    /\ ParamsIdle
    /\ LogIdle
    /\ UploadIdle
    /\ RefeatIdle
    /\ FrameIdle
    /\ ReasonIdle
    /\ BackendIdle
    /\ PipelineIdle

\* train_model.py lines 115-125 on the mask
TrainLabelPersist ==
    /\ run = "none"
    /\ LET label == AnomalyLabelTrain(Col(df, "below"))
       IN  out' = [NoOut EXCEPT !.anomaly_label = label,
                     !.persistent_anomaly = PersistentTrain(label, Col(df, "customer_id"))]
    /\ run' = "train_model"
    /\ UNCHANGED <<df, otherThanScore>>

\* evaluate_and_log.py lines 77-87 on the mask
EvalLabelPersist ==
    /\ run = "none"
    /\ LET label == AnomalyLabelEval(Col(df, "below"))
       IN  out' = [NoOut EXCEPT !.anomaly_label = label,
                     !.persistent_anomaly = PersistentEval(label, Col(df, "customer_id"))]
    /\ run' = "evaluate_and_log"
    /\ UNCHANGED <<df, otherThanScore>>

\* tune_model.py lines 71-83 on the mask: preds = np.where(final_score <
\* threshold, -1, 1), then the rolling sum of preds
ObjectiveLabelPersist ==
    /\ run = "none"
    /\ LET preds == AnomalyLabelTrain(Col(df, "below"))
       IN  out' = [NoOut EXCEPT !.anomaly_label = preds,
                     !.persistent_anomaly = PersistentObjective(preds, Col(df, "customer_id"))]
    /\ run' = "tune_model"
    /\ UNCHANGED <<df, otherThanScore>>

NextPersist ==
    \/ TrainLabelPersist
    \/ EvalLabelPersist
    \/ ObjectiveLabelPersist

SpecPersist == InitPersist /\ [][NextPersist]_vars

----------------------------------------------------------------------------
(* Claims on the scoring scripts *)

\* whether row i carries the script's "anomalous" label: -1 in train_model.py,
\* 1 in evaluate_and_log.py
LabelledAnomalous(i) ==
    IF run = "evaluate_and_log" THEN out.anomaly_label[i] = 1 ELSE out.anomaly_label[i] = -1

\* C1: in train_model.py and evaluate_and_log.py a row has persistent_anomaly = 1
\* exactly when it and the preceding row of the same customer are both labelled
\* anomalous; so the first row of a customer is never persistent.
C1_PersistentIffTwoConsecutive ==
    run \in {"train_model", "evaluate_and_log"} =>
        \A i \in DOMAIN df :
            /\ out.persistent_anomaly[i] \in {0, 1}
            /\ out.persistent_anomaly[i] = 1 <=>
                  /\ i > 1
                  /\ df[i - 1].customer_id = df[i].customer_id
                  /\ LabelledAnomalous(i - 1)
                  /\ LabelledAnomalous(i)

\* C1 witness: the evaluation has flagged a persistent row of one customer while
\* another customer has an isolated anomalous month that is not persistent.
C1_Witness ==
    /\ run = "evaluate_and_log"
    /\ \E i, j \in DOMAIN df :
          /\ out.persistent_anomaly[i] = 1
          /\ df[j].customer_id # df[i].customer_id
          /\ LabelledAnomalous(j)
          /\ out.persistent_anomaly[j] = 0

\* C23: the score evaluate_combo thresholds for a candidate is the final_score
\* the training path (train_model.py) computes under the same parameters
\* (min-max normalized model scores blended by alpha, minus rule_flag times
\* the rule penalty), so the two paths label the same rows anomalous on the
\* same batch.
C23_ComboLabelsAsTraining ==
    (run = "tune_and_train" /\ out.params.threshold_pct = THRESHOLD_PCT) =>
        out.anomaly_label = TrainModel(df, out.params.alpha).anomaly_label

\* lof_norm of the scripts: MinMaxScaler on abs(lof_pred), as numerators over
\* MinMaxDen of that column
LofNorm(lof_pred) == MinMaxNum([i \in DOMAIN lof_pred |-> Abs(lof_pred[i])])

\* C27: in train_model.py, evaluate_and_log.py and tune_model.py a row the
\* density model labels an outlier (lof_pred = -1) receives a strictly lower
\* lof_norm than a row it labels an inlier (lof_pred = 1), so that with
\* alpha < 1 two rows with equal iso_norm and equal rule_flag but different
\* density labels get different final_score.
C27_OutlierHasLowerDensityScore ==
    run \in {"train_model", "evaluate_and_log", "tune_model"} =>
        LET lof_pred == LofPred(Col(df, "lofd"))
        IN  \A i, j \in DOMAIN df :
                (lof_pred[i] = -1 /\ lof_pred[j] = 1) =>
                    /\ LofNorm(lof_pred)[i] < LofNorm(lof_pred)[j]
                    /\ (df[i].iso = df[j].iso /\ out.rule_flag[i] = out.rule_flag[j]) =>
                          out.final_score[i] # out.final_score[j]

\* C22: in the objective of tune_model.py, persistent_anomaly is 1 on a row
\* exactly when that row and the preceding row of the same customer are both
\* predicted anomalous (-1), so the persistence factor grows with the share
\* of two-in-a-row anomalous months and not with the share of normal months.
C22_ObjectivePersistentIffTwoAnomalous ==
    run = "tune_model" =>
        \A i \in DOMAIN df :
            out.persistent_anomaly[i] = 1 <=>
                /\ i > 1
                /\ df[i - 1].customer_id = df[i].customer_id
                /\ out.anomaly_label[i - 1] = -1
                /\ out.anomaly_label[i] = -1

\* C2: in train_model.py, evaluate_combo and evaluate_and_log.py a row is
\* labelled -1 exactly when its final_score is strictly below the percentile
\* threshold and 1 otherwise.
C2_LabelStrictlyBelowThreshold ==
    run \in {"train_model", "tune_and_train", "evaluate_and_log"} =>
        \A i \in DOMAIN df :
            out.anomaly_label[i] =
                IF 100 * out.final_score[i] < out.threshold100 THEN -1 ELSE 1

\* C3: in every script rule_flag is 1 exactly when ratio < under_cutoff or
\* ratio > over_cutoff (the cutoffs of the script: the defaults, or those of
\* the trial in tune_model.py), and 0 otherwise.
C3_RuleFlagUnderOrOver ==
    run # "none" =>
        LET under == IF run = "tune_model" THEN out.under_cutoff ELSE UNDER_CUTOFF
            over  == IF run = "tune_model" THEN out.over_cutoff ELSE OVER_CUTOFF
        IN  \A i \in DOMAIN df :
                out.rule_flag[i] =
                    IF df[i].ratio < under \/ df[i].ratio > over THEN 1 ELSE 0

----------------------------------------------------------------------------
(* tune_and_train.py: the grid loop and what it persists *)

\* fractions as <<numerator, denominator>>, denominator > 0
RatLess(a, b) == a[1] * b[2] < b[1] * a[2]

RatEq(a, b) == a[1] * b[2] = b[1] * a[2]

\* sklearn precision_score(..., pos_label=-1, zero_division=0)
Precision(c) == IF c.tp + c.fp = 0 THEN <<0, 1>> ELSE <<c.tp, c.tp + c.fp>>

\* sklearn recall_score(..., pos_label=-1, zero_division=0)
Recall(c) == IF c.tp + c.fn = 0 THEN <<0, 1>> ELSE <<c.tp, c.tp + c.fn>>

\* sklearn f1_score(..., pos_label=-1, zero_division=0)
F1(c) == IF 2 * c.tp + c.fp + c.fn = 0 THEN <<0, 1>> ELSE <<2 * c.tp, 2 * c.tp + c.fp + c.fn>>

\* what evaluate_combo can find on val_df: counts of true positives, false
\* positives and false negatives of pred against the synthetic labels
ConfusionCounts == {0, 1}

Confusions == [tp : ConfusionCounts, fp : ConfusionCounts, fn : ConfusionCounts]

\* best = {"f1": -1.0}; best.get("precision", 0) reads 0 while nothing is kept
NoBest == [params |-> 0, f1 |-> <<-1, 1>>, precision |-> <<0, 1>>, recall |-> <<0, 1>>]

\* a slip: the comparison keeps the first candidate of the best F1
BetterByF1Only(res, b) == RatLess(b.f1, res.f1)

\* res["f1"] > best["f1"] or (res["f1"] == best["f1"] and
\* res["precision"] > best.get("precision", 0))
Better(res, b) ==
    \/ RatLess(b.f1, res.f1)
    \/ RatEq(res.f1, b.f1) /\ RatLess(b.precision, res.precision)

InitGrid ==
    /\ gi = 0
    /\ results = <<>>
    /\ best = NoBest
    /\ gpc = "loop"
    /\ gfiles = [f \in {} |-> 0]
    /\ ScoreIdle
    /\ ServeIdle
    /\ InjectIdle
    /\ TrainRunIdle
    /\ CutIdle
    /\ FeatIdle
    /\ SplitIdle
    /\ ParamsIdle
    /\ LogIdle
    /\ UploadIdle
    /\ RefeatIdle
    /\ FrameIdle
    /\ ReasonIdle
    /\ BackendIdle
    /\ PipelineIdle

\* one pass of the loop body: evaluate_combo returns its metrics
GridIterate ==
    /\ gpc = "loop"
    /\ gi < NCand
    /\ \E c \in Confusions :
          LET res == [params |-> gi + 1, f1 |-> F1(c), precision |-> Precision(c),
                      recall |-> Recall(c)]
          IN  /\ results' = Append(results, res)
              /\ best' = IF Better(res, best) THEN res ELSE best
    /\ gi' = gi + 1
    /\ UNCHANGED <<gpc, gfiles, otherThanGrid>>

\* one pass of the loop body: evaluate_combo raises; nothing in the loop
\* catches it, so the script ends there
GridIterateRaises ==
    /\ gpc = "loop"
    /\ gi < NCand
    /\ gi' = gi + 1
    /\ gpc' = "crashed"
    /\ UNCHANGED <<results, best, gfiles, otherThanGrid>>

\* tuning_df.to_csv(tuning_path)
SaveTuningTable ==
    /\ gpc = "loop"
    /\ gi = NCand
    /\ gfiles' = gfiles @@ [f \in {"reports/tuning_results.csv"} |-> [kind |-> "tuning_table", rows |-> results]]
    /\ gpc' = "table_saved"
    /\ UNCHANGED <<gi, results, best, otherThanGrid>>

\* iso_final.fit(df[features]) on the full dataset, then joblib.dump
TrainFinalModel ==
    /\ gpc = "table_saved"
    /\ gfiles' = gfiles @@ [f \in {"models/best_isolation_forest.pkl"} |->
                    [kind |-> "isolation_model", params |-> best.params, fitted_on |-> "full"]]
    /\ gpc' = "model_saved"
    /\ UNCHANGED <<gi, results, best, otherThanGrid>>

\* json.dump(meta, best_model_meta.json)
WriteMeta ==
    /\ gpc = "model_saved"
    /\ gfiles' = gfiles @@ [f \in {"models/best_model_meta.json"} |->
                    [kind |-> "meta", best_params |-> best.params,
                     best_metrics |-> [precision |-> best.precision, recall |-> best.recall,
                                       f1 |-> best.f1]]]
    /\ gpc' = "done"
    /\ UNCHANGED <<gi, results, best, otherThanGrid>>

NextGrid ==
    \/ GridIterate
    \/ GridIterateRaises
    \/ SaveTuningTable
    \/ TrainFinalModel
    \/ WriteMeta

SpecGrid == InitGrid /\ [][NextGrid]_vars

----------------------------------------------------------------------------
(* Claims on the grid search *)

\* C6: once the loop has taken all candidates, the retained best has the
\* maximum F1 of all evaluated candidates and, among those of that F1, the
\* maximum precision.
C6_BestIsMaxF1ThenPrecision ==
    (gpc \in {"table_saved", "model_saved", "done"}) =>
        /\ \E k \in DOMAIN results : results[k] = best
        /\ \A k \in DOMAIN results :
              /\ ~RatLess(best.f1, results[k].f1)
              /\ RatEq(best.f1, results[k].f1) => ~RatLess(best.precision, results[k].precision)

\* C6 witness: the search is over, and a later candidate that ties the best F1
\* with a higher precision has replaced an earlier one.
C6_Witness ==
    /\ gpc = "done"
    /\ \E j, k \in DOMAIN results :
          /\ j < k
          /\ best = results[k]
          /\ RatEq(results[j].f1, results[k].f1)
          /\ RatLess(results[j].precision, results[k].precision)
          /\ RatLess(<<0, 1>>, results[j].f1)

\* candidates the loop has taken that left no row in the tuning table: their
\* evaluation raised
FailedCandidates == {k \in 1..gi : \A j \in DOMAIN results : results[j].params # k}

\* C7: a candidate whose evaluation raises is skipped: the run goes on with the
\* remaining candidates and ends with a best set chosen among the candidates
\* that succeeded and with the artifacts written.
C7_FailedCandidateIsSkipped ==
    FailedCandidates # {} =>
        /\ gpc # "crashed"
        /\ gpc = "done" =>
              /\ best.params \in 1..NCand \ FailedCandidates
              /\ {"models/best_isolation_forest.pkl", "models/best_model_meta.json"}
                    \subseteq DOMAIN gfiles

\* C8: when tune_and_train.py completes it has persisted the winning
\* parameters, an isolation model fitted on the full dataset under them, and
\* the feature scaler.
C8_PersistsParamsModelAndScaler ==
    gpc = "done" =>
        /\ \E f \in DOMAIN gfiles : gfiles[f].kind = "meta" /\ gfiles[f].best_params = best.params
        /\ \E f \in DOMAIN gfiles :
              /\ gfiles[f].kind = "isolation_model"
              /\ gfiles[f].params = best.params
              /\ gfiles[f].fitted_on = "full"
        /\ \E f \in DOMAIN gfiles : gfiles[f].kind = "feature_scaler"

----------------------------------------------------------------------------
(* Training writes the artifacts, the serving modules load them at import   *)
(* and score with them.  An artifact of run n is the isolation model fitted *)
(* on features scaled by the scaler of run n.                               *)


\* the model directory of each module: BASE_DIR is the directory of the file
ModelDir(m) ==
    CASE m = "train_model.py"           -> "models"          \* BASE_DIR/models
      [] m = "evaluate_and_log.py"      -> "models"          \* BASE_DIR/models
      [] m = "generate_top50.py"        -> "models"          \* BASE_DIR/models
      [] m = "backend/main.py"          -> "models"          \* backend/../models
      [] m = "backend/api/predict.py"   -> "backend/models"  \* dirname(backend/api)/models
      [] m = "backend/api/customers.py" -> "backend/models"  \* backend/api/../models

ModelPath(m) == [dir |-> ModelDir(m), name |-> "anomaly_model.pkl"]

ScalerPath(m) == [dir |-> ModelDir(m), name |-> "scaler.pkl"]

Paths == [dir : {"models", "backend/models"}, name : {"anomaly_model.pkl", "scaler.pkl"}]

Modules == {"backend/main.py", "backend/api/predict.py", "backend/api/customers.py"}

Absent == [state |-> "absent", ver |-> NONE]

\* joblib.load(path): the object, when the file holds a whole pickle
Loaded(f) == IF f.state = "complete" THEN f.ver ELSE NONE

Down == [status |-> "down", model |-> NONE, scaler |-> NONE, saw |-> {}]

\* train_model.py FEATURES: the columns the scaler and the model are fitted on
FEATURES == <<"consumption_kwh", "billed_kwh", "ratio", "monthly_change",
              "cat_dev", "billing_gap">>

\* backend/api/customers.py: X = df[["consumption_kwh", "billed_kwh", "ratio",
\* "monthly_change"]].fillna(0)
ApiCustomersColumns == <<"consumption_kwh", "billed_kwh", "ratio", "monthly_change">>

\* the column list an entry point selects for the scaler or the model:
\* features of backend/main.py, FEATURES of backend/api/predict.py and of
\* generate_top50.py, features of evaluate_and_log.py are the six columns
ColumnsPassed(by) ==
    IF by \in {"backend/api/customers.py /", "backend/api/customers.py /{customer_id}"}
    THEN ApiCustomersColumns
    ELSE FEATURES

\* passed: the columns of the rows handed to the scaler or the model, <<>>
\* when neither was called
NoResp == [by |-> "none", kind |-> "none", score |-> "na", label |-> "na",
           model |-> NONE, scaled_by |-> NONE, saw |-> "na", passed |-> <<>>]

\* a response whose scores come from the isolation model `model`, fed with
\* features transformed by scaler `scaler` (NONE: the raw features)
Scored(by, model, scaler) ==
    [NoResp EXCEPT !.by = by, !.kind = "ok", !.score = "model", !.label = "model",
                   !.model = model, !.scaled_by = scaler, !.passed = ColumnsPassed(by)]

\* the model-absent branch: df["anomaly_score"], df["anomaly_label"] = 0.0, 1
Neutral(by, label) ==
    [NoResp EXCEPT !.by = by, !.kind = "ok", !.score = "0", !.label = label]

Failed(by, kind, model, saw) ==
    [NoResp EXCEPT !.by = by, !.kind = kind, !.model = model, !.saw = saw]

\* backend/models is written by no script: it is empty, or holds artifacts
\* put there by hand (version 0)
InitServe ==
    /\ files \in {f \in [Paths -> {Absent, [state |-> "complete", ver |-> 0]}] :
                    /\ \A p \in Paths : p.dir = "models" => f[p] = Absent
                    /\ f[ModelPath("backend/api/predict.py")] = f[ScalerPath("backend/api/predict.py")]}
    /\ tpc = "ready"
    /\ tver = 0
    /\ mods = [m \in Modules |-> Down]
    /\ resp = NoResp
    /\ ScoreIdle
    /\ GridIdle
    /\ InjectIdle
    /\ TrainRunIdle
    /\ CutIdle
    /\ FeatIdle
    /\ SplitIdle
    /\ ParamsIdle
    /\ LogIdle
    /\ UploadIdle
    /\ RefeatIdle
    /\ FrameIdle
    /\ ReasonIdle
    /\ BackendIdle
    /\ PipelineIdle

(* train_model.py *)

\* steps 1 to 5: feature_scaler.fit_transform(X), iso.fit_predict(X_scaled)
TrainFit ==
    /\ tpc = "ready"
    /\ tver < MaxTrainRuns
    /\ tver' = tver + 1
    /\ tpc' = "fitted"
    /\ UNCHANGED <<files, mods, resp, otherThanServe>>

\* joblib.dump(obj, filename) opens filename for writing, which empties it ...
DumpOpen(path) == files' = [files EXCEPT ![path] = [state |-> "partial", ver |-> tver]]

\* ... and the pickle is whole when the file is closed
DumpClose(path) == files' = [files EXCEPT ![path] = [state |-> "complete", ver |-> tver]]

DumpModelOpen ==
    /\ tpc = "fitted"
    /\ DumpOpen(ModelPath("train_model.py"))
    /\ tpc' = "model_open"
    /\ UNCHANGED <<tver, mods, resp, otherThanServe>>

DumpModelClose ==
    /\ tpc = "model_open"
    /\ DumpClose(ModelPath("train_model.py"))
    /\ tpc' = "model_saved"
    /\ UNCHANGED <<tver, mods, resp, otherThanServe>>

DumpScalerOpen ==
    /\ tpc = "model_saved"
    /\ DumpOpen(ScalerPath("train_model.py"))
    /\ tpc' = "scaler_open"
    /\ UNCHANGED <<tver, mods, resp, otherThanServe>>

DumpScalerClose ==
    /\ tpc = "scaler_open"
    /\ DumpClose(ScalerPath("train_model.py"))
    /\ tpc' = "ready"
    /\ UNCHANGED <<tver, mods, resp, otherThanServe>>

(* import of the serving modules *)

\* backend/main.py: try: model = joblib.load(MODEL_PATH) except: model = None
StartMain ==
    LET m == "backend/main.py"
        f == files[ModelPath(m)]
    IN  /\ mods[m].status = "down"
        /\ mods' = [mods EXCEPT ![m] = [status |-> "up", model |-> Loaded(f),
                                        scaler |-> NONE, saw |-> {f.state}]]
        /\ UNCHANGED <<files, tpc, tver, resp, otherThanServe>>

\* backend/api/predict.py: joblib.load(path) if os.path.exists(path) else None,
\* for the model and for the scaler; a load that raises ends the import
StartApiPredict ==
    LET m  == "backend/api/predict.py"
        fm == files[ModelPath(m)]
        fs == files[ScalerPath(m)]
    IN  /\ mods[m].status = "down"
        /\ mods' = [mods EXCEPT ![m] =
                      IF "partial" \in {fm.state, fs.state}
                      THEN [status |-> "crashed", model |-> NONE, scaler |-> NONE,
                            saw |-> {fm.state, fs.state}]
                      ELSE [status |-> "up", model |-> Loaded(fm), scaler |-> Loaded(fs),
                            saw |-> {fm.state, fs.state}]]
        /\ UNCHANGED <<files, tpc, tver, resp, otherThanServe>>

\* backend/api/customers.py: try: model = load; scaler = load
\* except: model = None; scaler = None
StartApiCustomers ==
    LET m  == "backend/api/customers.py"
        fm == files[ModelPath(m)]
        fs == files[ScalerPath(m)]
        ok == fm.state = "complete" /\ fs.state = "complete"
    IN  /\ mods[m].status = "down"
        /\ mods' = [mods EXCEPT ![m] =
                      [status |-> "up", model |-> IF ok THEN fm.ver ELSE NONE,
                       scaler |-> IF ok THEN fs.ver ELSE NONE,
                       saw |-> IF fm.state = "complete" THEN {fm.state, fs.state}
                               ELSE {fm.state}]]
        /\ UNCHANGED <<files, tpc, tver, resp, otherThanServe>>

(* endpoints; hasRows: whether the data source gave rows for the request *)

\* backend/main.py /customers and /customer/{cust_id}: the model scores
\* df[features].fillna(0) as it is
MainScore(by, hasRows) ==
    LET m == mods["backend/main.py"]
    IN  /\ m.status = "up"
        /\ resp' = IF ~hasRows THEN Failed(by, "empty", m.model, "na")
                   ELSE IF m.model # NONE THEN Scored(by, m.model, NONE)
                   ELSE Neutral(by, "1")
        /\ UNCHANGED <<files, tpc, tver, mods, otherThanServe>>

MainCustomers == \E hasRows \in BOOLEAN : MainScore("backend/main.py /customers", hasRows)

MainCustomer == \E hasRows \in BOOLEAN : MainScore("backend/main.py /customer/{cust_id}", hasRows)

\* backend/main.py /predict: if model is None: return {"error": "Model not available"}
MainPredict ==
    LET m  == mods["backend/main.py"]
        by == "backend/main.py /predict"
    IN  /\ m.status = "up"
        /\ resp' = IF m.model = NONE THEN Failed(by, "error", m.model, "na")
                   ELSE Scored(by, m.model, NONE)
        /\ UNCHANGED <<files, tpc, tver, mods, otherThanServe>>

\* backend/api/predict.py /predict: HTTPException(500) without model or scaler,
\* and for whatever the scoring raises (np.quantile of no record)
ApiPredict ==
    LET m  == mods["backend/api/predict.py"]
        by == "backend/api/predict.py /predict"
    IN  /\ m.status = "up"
        /\ \E hasRows \in BOOLEAN :
              resp' = IF m.model = NONE \/ m.scaler = NONE \/ ~hasRows
                      THEN Failed(by, "raise", m.model, "na")
                      ELSE Scored(by, m.model, m.scaler)
        /\ UNCHANGED <<files, tpc, tver, mods, otherThanServe>>

\* backend/api/customers.py get_customers and get_customer_detail: with a model,
\* scaler.transform is given 4 columns and raises, as the scaler was fitted on
\* 6; without one, anomaly_score = 0 and no label column
ApiCustomersScore(by, hasRows) ==
    LET m == mods["backend/api/customers.py"]
    IN  /\ m.status = "up"
        /\ resp' = IF ~hasRows THEN Failed(by, "empty", m.model, "na")
                   ELSE IF m.model # NONE
                        THEN IF m.scaler # NONE
                             THEN [Failed(by, "raise", m.model, "na")
                                      EXCEPT !.passed = ColumnsPassed(by)]
                             ELSE [Scored(by, m.model, NONE) EXCEPT !.label = "absent"]
                   ELSE Neutral(by, "absent")
        /\ UNCHANGED <<files, tpc, tver, mods, otherThanServe>>

ApiCustomers == \E hasRows \in BOOLEAN : ApiCustomersScore("backend/api/customers.py /", hasRows)

ApiCustomerDetail ==
    \E hasRows \in BOOLEAN : ApiCustomersScore("backend/api/customers.py /{customer_id}", hasRows)

(* scripts that score with the persisted model *)

\* evaluate_and_log.py: iso = joblib.load(...); iso.decision_function(X)
EvaluateAndLogScore ==
    LET by == "evaluate_and_log.py"
        f  == files[ModelPath(by)]
    IN  /\ resp' = IF f.state = "complete" THEN [Scored(by, f.ver, NONE) EXCEPT !.saw = f.state]
                   ELSE Failed(by, "raise", NONE, f.state)
        /\ UNCHANGED <<files, tpc, tver, mods, otherThanServe>>

\* generate_top50.py: both files must exist; X_scaled = scaler.transform(X);
\* iso.score_samples(X_scaled)
GenerateTop50 ==
    LET by == "generate_top50.py"
        fm == files[ModelPath(by)]
        fs == files[ScalerPath(by)]
    IN  /\ resp' = IF fm.state = "complete" /\ fs.state = "complete"
                   THEN [Scored(by, fm.ver, fs.ver) EXCEPT !.saw = "complete"]
                   ELSE IF "absent" \in {fm.state, fs.state}
                        THEN Failed(by, "raise", NONE, "absent")
                   ELSE Failed(by, "raise", NONE, "partial")
        /\ UNCHANGED <<files, tpc, tver, mods, otherThanServe>>

NextServe ==
    \/ TrainFit
    \/ DumpModelOpen
    \/ DumpModelClose
    \/ DumpScalerOpen
    \/ DumpScalerClose
    \/ StartMain
    \/ StartApiPredict
    \/ StartApiCustomers
    \/ MainCustomers
    \/ MainCustomer
    \/ MainPredict
    \/ ApiPredict
    \/ ApiCustomers
    \/ ApiCustomerDetail
    \/ EvaluateAndLogScore
    \/ GenerateTop50

SpecServe == InitServe /\ [][NextServe]_vars

----------------------------------------------------------------------------
(* Claims on training and serving *)

\* C4: every path that scores rows with the persisted isolation model first
\* transforms the feature matrix with the persisted scaler: the model never
\* scores unscaled rows.
C4_ModelScoresScaledRows ==
    (resp.kind = "ok" /\ resp.model # NONE) => resp.scaled_by # NONE

ServingEntryPoints ==
    {"backend/main.py /customers", "backend/main.py /customer/{cust_id}",
     "backend/main.py /predict", "backend/api/predict.py /predict",
     "backend/api/customers.py /", "backend/api/customers.py /{customer_id}"}

\* C5: with no isolation model loaded, every scoring entry point answers each
\* row with anomaly score 0 and label 1, and neither raises nor returns an
\* error response.
C5_ModelAbsentIsNeutral ==
    (resp.by \in ServingEntryPoints /\ resp.model = NONE /\ resp.kind # "empty") =>
        /\ resp.kind = "ok"
        /\ resp.score = "0"
        /\ resp.label = "1"

\* C9: no reader of an artifact observes a partially written file.
C9_NoPartialArtifactObserved ==
    /\ \A m \in Modules : "partial" \notin mods[m].saw
    /\ resp.saw # "partial"

\* C30: after train_model.py completes, each serving module started
\* afterwards (backend/main.py, backend/api/predict.py,
\* backend/api/customers.py) loads the anomaly_model.pkl and scaler.pkl that
\* this run wrote, so none of them falls back to the model-absent state.
C30_ServingLoadsWhatTrainingWrote ==
    [][\A m \in Modules :
          (tpc = "ready" /\ tver >= 1 /\ mods[m].status = "down" /\ mods'[m].status # "down") =>
              /\ mods'[m].status = "up"
              /\ mods'[m].model = tver
              /\ mods'[m].scaler = tver]_vars

\* C19: every call that passes rows to the persisted scaler or isolation
\* model passes exactly the six feature columns consumption_kwh, billed_kwh,
\* ratio, monthly_change, cat_dev, billing_gap, in that order, as at fit time.
C19_SixFeatureColumnsPassed ==
    resp.passed # <<>> => resp.passed = FEATURES

----------------------------------------------------------------------------
(* utils/synthetic.py: inject_synthetic_anomalies_per_customer.  The draws  *)
(* of the seeded generator are choices of the model; the multiplier a mode  *)
(* applies to the raw columns is not carried, the mode is.                  *)

Max2(a, b) == IF a >= b THEN a ELSE b

\* a slip: the count rounded to the nearest whole number (halves to even, as
\* Python's round) where the code truncates
RoundedCount(n, frac) ==
    LET q == (n * frac) \div 100
        r == (n * frac) % 100
    IN  Max2(1, IF r > 50 \/ (r = 50 /\ q % 2 = 1) THEN q + 1 ELSE q)

\* k = max(1, int(n_customers * customer_frac)), and
\* m = max(1, int(len(months) * months_frac)): int() truncates
TruncatedCount(n, frac) == Max2(1, (n * frac) \div 100)

\* df["customer_id"].unique()
UniqueCustomers(d) == {r.customer_id : r \in d}

\* cust_rows["month"].unique()
MonthsOf(d, cust) == {r.month : r \in {x \in d : x.customer_id = cust}}

Modes == {"underbilling", "zero_consumption", "spike", "flatline", "seasonal_shift"}

\* fractions a caller may pass, in hundredths (the callers pass 0.05, 0.25 and 0.3)
CustomerFracVals == {30, 80}

MonthsFracVals == {30, 80, 100}

\* customer c of the batch has the months 1..nm[c]
BatchOf(nm) ==
    {r \in [customer_id : DOMAIN nm, month : 1..MaxMonthsPer] : r.month <= nm[r.customer_id]}

InitInject ==
    /\ idf \in {BatchOf(nm) : nm \in UNION {[1..n -> 1..MaxMonthsPer] : n \in 1..MaxCust}}
    /\ fracs \in [customer_frac : CustomerFracVals, months_frac : MonthsFracVals]
    /\ odf = {}
    /\ ipc = "ready"
    /\ lp = <<>>
    /\ SeedIdle
    /\ ScoreIdle
    /\ GridIdle
    /\ ServeIdle
    /\ TrainRunIdle
    /\ CutIdle
    /\ FeatIdle
    /\ SplitIdle
    /\ ParamsIdle
    /\ LogIdle
    /\ UploadIdle
    /\ RefeatIdle
    /\ FrameIdle
    /\ ReasonIdle
    /\ BackendIdle
    /\ PipelineIdle

\* the whole call: np.random.choice of k customers, of m months for each of
\* them, and of one mode for each chosen (customer, month) row
Inject ==
    /\ ipc = "ready"
    /\ \E chosen_customers \in SUBSET UniqueCustomers(idf) :
          /\ Cardinality(chosen_customers) =
                TruncatedCount(Cardinality(UniqueCustomers(idf)), fracs.customer_frac)
          /\ \E chosen_months \in [chosen_customers -> SUBSET (1..MaxMonthsPer)] :
                /\ \A c \in chosen_customers :
                      /\ chosen_months[c] \subseteq MonthsOf(idf, c)
                      /\ Cardinality(chosen_months[c]) =
                            TruncatedCount(Cardinality(MonthsOf(idf, c)), fracs.months_frac)
                /\ LET rows == {r \in idf : /\ r.customer_id \in chosen_customers
                                            /\ r.month \in chosen_months[r.customer_id]}
                   IN  \E mode \in [rows -> Modes] :
                          odf' = {[customer_id |-> r.customer_id, month |-> r.month,
                                   is_synthetic |-> IF r \in rows THEN 1 ELSE 0,
                                   mode |-> IF r \in rows THEN mode[r] ELSE "none"] : r \in idf}
    /\ ipc' = "done"
    /\ UNCHANGED <<idf, fracs, lp, seedVars, otherThanInject>>

NextInject ==
    \/ Inject

SpecInject == InitInject /\ [][NextInject]_vars

----------------------------------------------------------------------------
(* Claims on the injector *)

CorruptedCustomers == {r.customer_id : r \in {x \in odf : x.is_synthetic = 1}}

CorruptedMonths(c) == {r.month : r \in {x \in odf : x.is_synthetic = 1 /\ x.customer_id = c}}

\* C10 as stated: the injector corrupts exactly max(1, round(n_customers *
\* customer_frac)) distinct customers and, for each, exactly
\* max(1, round(n_months * months_frac)) distinct months.
C10_RoundedCounts ==
    ipc = "done" =>
        /\ Cardinality(CorruptedCustomers) =
              RoundedCount(Cardinality(UniqueCustomers(idf)), fracs.customer_frac)
        /\ \A c \in CorruptedCustomers :
              Cardinality(CorruptedMonths(c)) =
                  RoundedCount(Cardinality(MonthsOf(idf, c)), fracs.months_frac)

\* C10 amended: the counts are max(1, int(n_customers * customer_frac)) and
\* max(1, int(n_months * months_frac)), the products truncated to a whole
\* number.
C10_TruncatedCounts ==
    ipc = "done" =>
        /\ Cardinality(CorruptedCustomers) =
              LET k == (Cardinality(UniqueCustomers(idf)) * fracs.customer_frac) \div 100
              IN  IF k >= 1 THEN k ELSE 1
        /\ \A c \in CorruptedCustomers :
              Cardinality(CorruptedMonths(c)) =
                  LET m == (Cardinality(MonthsOf(idf, c)) * fracs.months_frac) \div 100
                  IN  IF m >= 1 THEN m ELSE 1

\* C10 witness: a customer with two months had both corrupted while another
\* customer of the batch was left alone.
C10_Witness ==
    /\ ipc = "done"
    /\ \E c \in CorruptedCustomers : Cardinality(CorruptedMonths(c)) = 2
    /\ UniqueCustomers(idf) \ CorruptedCustomers # {}

----------------------------------------------------------------------------
(* utils/synthetic.py: the loops of inject_synthetic_anomalies_per_customer, *)
(* one iteration at a time.  A row carries its index label idx; applied     *)
(* counts the executions of the mode branch (lines 45-56) on the row.       *)

RECURSIVE Total(_)
Total(c) ==
    IF DOMAIN c = {} THEN 0
    ELSE LET x == CHOOSE y \in DOMAIN c : TRUE
         IN  c[x] + Total([y \in DOMAIN c \ {x} |-> c[y]])

\* a slip: np.random.choice(S, size=k) with its default replace=True
RandomChoiceWithReplacement(S, k) == {c \in [S -> 0..k] : Total(c) = k}

\* np.random.choice(S, size=k, replace=False), as the number of times each
\* element of S is in the array returned
RandomChoice(S, k) ==
    {[x \in S |-> IF x \in T THEN 1 ELSE 0] : T \in {U \in SUBSET S : Cardinality(U) = k}}

\* the elements of a chosen array the loop has not taken yet
Pending(c) == {x \in DOMAIN c : c[x] > 0}

NoChoice == [x \in {} |-> 0]

\* n customers with the months 1..nm each; with dup, the first (customer,
\* month) pair has a second row
LoopBatch(n, nm, dup) ==
    {[idx |-> (c - 1) * nm + mo, customer_id |-> c, month |-> mo] : c \in 1..n, mo \in 1..nm}
        \cup (IF dup THEN {[idx |-> n * nm + 1, customer_id |-> 1, month |-> 1]} ELSE {})

InitInjectLoop ==
    /\ idf \in {LoopBatch(n, nm, dup) : n \in 1..MaxCust, nm \in 1..MaxMonthsPer, dup \in BOOLEAN}
    /\ fracs \in [customer_frac : CustomerFracVals, months_frac : MonthsFracVals]
    /\ odf = {}
    /\ ipc = "ready"
    /\ lp = [chosen_customers |-> NoChoice, cust |-> NONE, chosen_months |-> NoChoice]
    /\ SeedIdle
    /\ ScoreIdle
    /\ GridIdle
    /\ ServeIdle
    /\ TrainRunIdle
    /\ CutIdle
    /\ FeatIdle
    /\ SplitIdle
    /\ ParamsIdle
    /\ LogIdle
    /\ UploadIdle
    /\ RefeatIdle
    /\ FrameIdle
    /\ ReasonIdle
    /\ BackendIdle
    /\ PipelineIdle

\* lines 12-19: the copy, is_synthetic = 0 on every row, the chosen customers
InjectBegin ==
    /\ ipc = "ready"
    /\ odf' = {[idx |-> r.idx, customer_id |-> r.customer_id, month |-> r.month,
                is_synthetic |-> 0, mode |-> "none", applied |-> 0] : r \in idf}
    /\ \E chosen_customers \in
            RandomChoice(UniqueCustomers(idf),
                         TruncatedCount(Cardinality(UniqueCustomers(idf)), fracs.customer_frac)) :
          lp' = [lp EXCEPT !.chosen_customers = chosen_customers]
    /\ ipc' = "loop"
    /\ UNCHANGED <<idf, fracs, seedVars, otherThanInject>>

\* lines 21-28: the next chosen customer and its chosen months
NextCustomer ==
    /\ ipc = "loop"
    /\ Pending(lp.chosen_months) = {}
    /\ \E cust \in Pending(lp.chosen_customers) :
          \E chosen_months \in
                RandomChoice(MonthsOf(odf, cust),
                             TruncatedCount(Cardinality(MonthsOf(odf, cust)), fracs.months_frac)) :
             lp' = [chosen_customers |-> [lp.chosen_customers EXCEPT ![cust] = @ - 1],
                    cust |-> cust, chosen_months |-> chosen_months]
    /\ UNCHANGED <<idf, fracs, odf, ipc, seedVars, otherThanInject>>

\* lines 30-58: the first row of the customer for the next chosen month gets
\* one mode and is_synthetic = 1
CorruptRow ==
    /\ ipc = "loop"
    /\ \E mon \in Pending(lp.chosen_months) :
          LET i == Min({r.idx : r \in {x \in odf : x.customer_id = lp.cust /\ x.month = mon}})
          IN  /\ \E mode \in Modes :
                    odf' = {IF r.idx = i
                            THEN [r EXCEPT !.mode = mode, !.applied = @ + 1, !.is_synthetic = 1]
                            ELSE r : r \in odf}
              /\ lp' = [lp EXCEPT !.chosen_months[mon] = @ - 1]
    /\ UNCHANGED <<idf, fracs, ipc, seedVars, otherThanInject>>

\* line 60
InjectReturn ==
    /\ ipc = "loop"
    /\ Pending(lp.chosen_months) = {}
    /\ Pending(lp.chosen_customers) = {}
    /\ ipc' = "done"
    /\ UNCHANGED <<idf, fracs, odf, lp, seedVars, otherThanInject>>

NextInjectLoop ==
    \/ InjectBegin
    \/ NextCustomer
    \/ CorruptRow
    \/ InjectReturn

SpecInjectLoop == InitInjectLoop /\ [][NextInjectLoop]_vars

\* C11: when the injector returns, is_synthetic is 1 on exactly the rows a
\* corruption mode was applied to, 0 on every other row, and no row had more
\* than one mode applied.
C11_SyntheticIffOneMode ==
    ipc = "done" =>
        \A r \in odf :
            /\ r.is_synthetic \in {0, 1}
            /\ r.is_synthetic = 1 <=> r.applied >= 1
            /\ r.applied <= 1
            /\ r.applied = 0 <=> r.mode = "none"

\* C11 witness: the injector returned with two months of one customer
\* corrupted and a row left alone.
C11_Witness ==
    /\ ipc = "done"
    /\ lp # <<>>
    /\ \E r1 \in odf, r2 \in odf :
          /\ r1.customer_id = r2.customer_id /\ r1.month # r2.month
          /\ r1.applied = 1 /\ r2.applied = 1
    /\ \E r \in odf : r.is_synthetic = 0

----------------------------------------------------------------------------
(* utils/synthetic.py and numpy's global generator: the draws of a call are *)
(* a function of the generator state the call starts drawing from.  That    *)
(* function is not known; memo fixes it point by point as calls are made.   *)

Seeds == {42, 7}

\* what np.random.uniform returned to a call: the low or the high end of
\* each range
UniformDraws == {0, 1}

\* a slip: the call draws from the generator as it finds it
KeepGenerator(g, seed) == g

\* line 12: np.random.seed(seed)
Reseed(g, seed) == [seed |-> seed, pos |-> 0]

\* the batches the call can return for a given input, by lines 16-58
InjectOutcomes(d, f) ==
    UNION {UNION {{{[customer_id |-> r.customer_id, month |-> r.month,
                     is_synthetic |-> IF r \in rows THEN 1 ELSE 0,
                     mode |-> IF r \in rows THEN mode[r] ELSE "none"] : r \in d}
                   : mode \in [rows -> Modes]}
                  : rows \in {{r \in d : /\ r.customer_id \in chosen_customers
                                         /\ r.month \in chosen_months[r.customer_id]}
                              : chosen_months \in
                                   {cm \in [chosen_customers -> SUBSET (1..MaxMonthsPer)] :
                                       \A c \in chosen_customers :
                                          /\ cm[c] \subseteq MonthsOf(d, c)
                                          /\ Cardinality(cm[c]) =
                                                TruncatedCount(Cardinality(MonthsOf(d, c)),
                                                               f.months_frac)}}}
           : chosen_customers \in
                {cc \in SUBSET UniqueCustomers(d) :
                    Cardinality(cc) = TruncatedCount(Cardinality(UniqueCustomers(d)),
                                                     f.customer_frac)}}

\* the defaults of line 4
DefaultFracs == [customer_frac |-> 10, months_frac |-> 30]

InitSeed ==
    /\ idf \in {BatchOf(nm) : nm \in [1..1 -> 1..MaxMonthsPer]}
    /\ fracs = DefaultFracs
    /\ odf = {}
    /\ ipc = "ready"
    /\ lp = <<>>
    /\ rng = [seed |-> NONE, pos |-> 0]
    /\ memo = {}
    /\ calls = <<>>
    /\ ScoreIdle
    /\ GridIdle
    /\ ServeIdle
    /\ TrainRunIdle
    /\ CutIdle
    /\ FeatIdle
    /\ SplitIdle
    /\ ParamsIdle
    /\ LogIdle
    /\ UploadIdle
    /\ RefeatIdle
    /\ FrameIdle
    /\ ReasonIdle
    /\ BackendIdle
    /\ PipelineIdle

\* one call inject_synthetic_anomalies_per_customer(df, seed=seed) on the
\* same df and fractions
InjectCall ==
    /\ Len(calls) < MaxCalls
    /\ \E seed \in Seeds :
          LET g == Reseed(rng, seed)
              known == {e \in memo : e.g = g}
          IN  \E o \in IF known # {}
                       THEN {e.out : e \in known}
                       ELSE [odf : InjectOutcomes(idf, fracs), uniform : UniformDraws] :
                 /\ memo' = memo \cup {[g |-> g, out |-> o]}
                 /\ calls' = Append(calls, [seed |-> seed, before |-> rng, out |-> o])
                 /\ odf' = o.odf
                 /\ rng' = [g EXCEPT !.pos = @ + 1]
    /\ UNCHANGED <<idf, fracs, ipc, lp, otherThanInject>>

\* any other np.random draw of the process
OtherDraw ==
    /\ rng.pos < MaxDraws
    /\ rng' = [rng EXCEPT !.pos = @ + 1]
    /\ UNCHANGED <<idf, fracs, odf, ipc, lp, memo, calls, otherThanInject>>

NextSeed ==
    \/ InjectCall
    \/ OtherDraw

SpecSeed == InitSeed /\ [][NextSeed]_vars

\* C12: two calls of the injector with the same batch, fractions and seed
\* return identical batches (same corrupted pairs, modes and multipliers),
\* whatever the process drew from the generator in between.
C12_SameSeedSameBatch ==
    \A i \in DOMAIN calls, j \in DOMAIN calls :
        calls[i].seed = calls[j].seed => calls[i].out = calls[j].out

\* C12 witness: two calls with the same seed, the second one made after
\* other code had drawn from the generator the first call left behind.
C12_Witness ==
    /\ Len(calls) >= 2
    /\ calls[1].seed = calls[2].seed
    /\ calls[2].before.seed = calls[1].seed
    /\ calls[2].before.pos >= 2

----------------------------------------------------------------------------
(* train_model.py, statement group by statement group: read the dataset,    *)
(* add_features, inject, rule flags.  consumption_kwh and billed_kwh of the *)
(* frame are in hundredths of a kWh, ratio in hundredths; the datasets      *)
(* drawn make billed_kwh / (consumption_kwh + 1) a whole number of          *)
(* hundredths.                                                              *)

\* (consumption_kwh, billed_kwh) of a row of the dataset file, in kWh
RawValues == {<<99, 100>>, <<99, 2>>, <<0, 1>>, <<99, 200>>}

\* sort_values(["customer_id", "month"])
RowBefore(a, b) ==
    \/ a.customer_id < b.customer_id
    \/ a.customer_id = b.customer_id /\ a.month < b.month

\* train_model.py add_features on the rows read
AddFeatures(rows) ==
    LET s == SortSeq(rows, RowBefore)
        n == Len(s)
        total == Total([i \in DOMAIN s |-> s[i].consumption_kwh])
    IN  [i \in DOMAIN s |->
            [customer_id |-> s[i].customer_id, month |-> s[i].month,
             consumption_kwh |-> 100 * s[i].consumption_kwh,
             billed_kwh |-> 100 * s[i].billed_kwh,
             ratio |-> (100 * s[i].billed_kwh) \div (s[i].consumption_kwh + 1),
             monthly_change |->
                 IF i > 1 /\ s[i - 1].customer_id = s[i].customer_id
                 THEN 100 * (s[i].consumption_kwh - s[i - 1].consumption_kwh)
                 ELSE 0,
             cat_dev |-> <<100 * (n * s[i].consumption_kwh - total), n>>,
             billing_gap |-> 100 * (s[i].consumption_kwh - s[i].billed_kwh)]]

\* the multiplier of consumption_kwh in a mode, in hundredths; u is what
\* np.random.uniform drew
ConsumptionPct(mode, u) ==
    CASE mode = "zero_consumption" -> 0
      [] mode = "spike" -> IF u[1] = 0 THEN 400 ELSE 1000
      [] mode = "flatline" -> IF u[1] = 0 THEN 0 ELSE 10
      [] mode = "seasonal_shift" -> IF u[1] = 0 THEN 20 ELSE 40
      [] OTHER -> 100

\* the multiplier of billed_kwh in a mode, in hundredths
BilledPct(mode, u) ==
    CASE mode = "underbilling" -> IF u[1] = 0 THEN 5 ELSE 40
      [] mode = "zero_consumption" -> IF u[1] = 0 THEN 120 ELSE 150
      [] mode = "seasonal_shift" -> IF u[2] = 0 THEN 120 ELSE 150
      [] OTHER -> 100

\* lines 45-58 on one row: only the raw columns and is_synthetic change
ApplyMode(r, mode, u) ==
    [r EXCEPT !.consumption_kwh = (@ * ConsumptionPct(mode, u)) \div 100,
              !.billed_kwh = (@ * BilledPct(mode, u)) \div 100,
              !.is_synthetic = 1,
              !.mode = mode]

\* the fractions train_model.py passes (line 42)
TrainFracs == [customer_frac |-> 5, months_frac |-> 30]

\* the rows of the frame as the injector's (customer, month) pairs
Pairs(d) == {[customer_id |-> d[i].customer_id, month |-> d[i].month] : i \in DOMAIN d}

\* idx[0]: the first row of the frame with this customer and month
FirstRow(d, cust, mon) ==
    Min({i \in DOMAIN d : d[i].customer_id = cust /\ d[i].month = mon})

\* dataset files: one customer's months, in any file order
TrainFiles ==
    UNION {{[i \in 1..n |-> [customer_id |-> 1, month |-> p[i],
                             consumption_kwh |-> v[p[i]][1], billed_kwh |-> v[p[i]][2]]]
            : p \in Permutations(1..n), v \in [1..n -> RawValues]}
           : n \in 1..MaxMonthsPer}

InitTrainRun ==
    /\ csv \in TrainFiles
    /\ tdf = <<>>
    /\ tstep = "start"
    /\ ScoreIdle
    /\ GridIdle
    /\ ServeIdle
    /\ InjectIdle
    /\ CutIdle
    /\ FeatIdle
    /\ SplitIdle
    /\ ParamsIdle
    /\ LogIdle
    /\ UploadIdle
    /\ RefeatIdle
    /\ FrameIdle
    /\ ReasonIdle
    /\ BackendIdle
    /\ PipelineIdle

\* lines 19-38
ReadAndAddFeatures ==
    /\ tstep = "start"
    /\ tdf' = AddFeatures(csv)
    /\ tstep' = "featured"
    /\ UNCHANGED <<csv, otherThanTrainRun>>

\* lines 41-43: the call of the injector; the derived columns are not touched
InjectTrain ==
    /\ tstep = "featured"
    /\ \E chosen_customers \in SUBSET UniqueCustomers(Pairs(tdf)) :
          /\ Cardinality(chosen_customers) =
                TruncatedCount(Cardinality(UniqueCustomers(Pairs(tdf))), TrainFracs.customer_frac)
          /\ \E chosen_months \in [chosen_customers -> SUBSET (1..MaxMonthsPer)] :
                /\ \A c \in chosen_customers :
                      /\ chosen_months[c] \subseteq MonthsOf(Pairs(tdf), c)
                      /\ Cardinality(chosen_months[c]) =
                            TruncatedCount(Cardinality(MonthsOf(Pairs(tdf), c)),
                                           TrainFracs.months_frac)
                /\ LET rows == UNION {{FirstRow(tdf, c, mon) : mon \in chosen_months[c]}
                                      : c \in chosen_customers}
                   IN  \E mode \in [rows -> Modes], u \in [rows -> UniformDraws \X UniformDraws] :
                          tdf' = [i \in DOMAIN tdf |->
                                    LET r == [customer_id |-> tdf[i].customer_id, month |-> tdf[i].month,
                                              consumption_kwh |-> tdf[i].consumption_kwh,
                                              billed_kwh |-> tdf[i].billed_kwh,
                                              ratio |-> tdf[i].ratio,
                                              monthly_change |-> tdf[i].monthly_change,
                                              cat_dev |-> tdf[i].cat_dev,
                                              billing_gap |-> tdf[i].billing_gap,
                                              is_synthetic |-> 0, mode |-> "none"]
                                    IN  IF i \in rows THEN ApplyMode(r, mode[i], u[i]) ELSE r]
    /\ tstep' = "injected"
    /\ UNCHANGED <<csv, otherThanTrainRun>>

\* lines 104-107: the cutoffs 0.85 and 1.3 applied to the ratio column of the
\* frame
RuleFlags ==
    /\ tstep = "injected"
    /\ tdf' = [i \in DOMAIN tdf |->
              [customer_id |-> tdf[i].customer_id, month |-> tdf[i].month,
               consumption_kwh |-> tdf[i].consumption_kwh,
               billed_kwh |-> tdf[i].billed_kwh,
               ratio |-> tdf[i].ratio,
               monthly_change |-> tdf[i].monthly_change,
               cat_dev |-> tdf[i].cat_dev,
               billing_gap |-> tdf[i].billing_gap,
               is_synthetic |-> tdf[i].is_synthetic, mode |-> tdf[i].mode,
               rule_flag |-> RuleFlag(Col(tdf, "ratio"), UNDER_CUTOFF, OVER_CUTOFF)[i]]]
    /\ tstep' = "flagged"
    /\ UNCHANGED <<csv, otherThanTrainRun>>

NextTrainRun ==
    \/ ReadAndAddFeatures
    \/ InjectTrain
    \/ RuleFlags

SpecTrainRun == InitTrainRun /\ [][NextTrainRun]_vars

\* billed_kwh of the dataset row of this customer and month, in kWh
OriginalBilled(cust, mon) ==
    LET i == CHOOSE j \in DOMAIN csv : csv[j].customer_id = cust /\ csv[j].month = mon
    IN  csv[i].billed_kwh

\* C13: in the training run a row corrupted with zero_consumption whose
\* original billed_kwh is at least 2 gets rule_flag = 1, the rule engine
\* reading the ratio of the corrupted values.
C13_ZeroConsumptionIsFlagged ==
    tstep = "flagged" =>
        \A i \in DOMAIN tdf :
            (tdf[i].mode = "zero_consumption" /\ OriginalBilled(tdf[i].customer_id, tdf[i].month) >= 2)
                => tdf[i].rule_flag = 1

----------------------------------------------------------------------------
(* The percentile cut on a batch of given scores, as each path takes it:    *)
(* train_model.py (and evaluate_and_log.py, tune_model.py) with < at the    *)
(* 5th percentile, backend/api/predict.py with < at np.quantile(., 0.05),   *)
(* tune_and_train.py evaluate_combo with <= at the candidate's percentile.  *)

\* values of a score; equal values are ties
ScoreVals == {0, 1, 2}

\* threshold_pct of the grid of tune_and_train.py
GridThresholdPcts == {2, 5}

NoCut == [by |-> "none", pct |-> 0, label |-> <<>>]

InitCut ==
    /\ scores \in UNION {[1..n -> ScoreVals] : n \in 1..MaxScores}
    /\ cut = NoCut
    /\ ScoreIdle
    /\ GridIdle
    /\ ServeIdle
    /\ InjectIdle
    /\ TrainRunIdle
    /\ FeatIdle
    /\ SplitIdle
    /\ ParamsIdle
    /\ LogIdle
    /\ UploadIdle
    /\ RefeatIdle
    /\ FrameIdle
    /\ ReasonIdle
    /\ BackendIdle
    /\ PipelineIdle

\* train_model.py lines 113-115
TrainCut ==
    /\ cut = NoCut
    /\ cut' = [by |-> "train_model.py", pct |-> THRESHOLD_PCT,
               label |-> AnomalyLabelTrain(Below(scores, THRESHOLD_PCT))]
    /\ UNCHANGED <<scores, otherThanCut>>

\* backend/api/predict.py lines 48-49
PredictCut ==
    /\ cut = NoCut
    /\ cut' = [by |-> "backend/api/predict.py", pct |-> THRESHOLD_PCT,
               label |-> [i \in DOMAIN scores |->
                            IF Below(scores, THRESHOLD_PCT)[i] THEN -1 ELSE 1]]
    /\ UNCHANGED <<scores, otherThanCut>>

\* tune_and_train.py lines 81-82
ComboCut ==
    /\ cut = NoCut
    /\ \E pct \in GridThresholdPcts :
          cut' = [by |-> "tune_and_train.py", pct |-> pct,
                  label |-> AnomalyLabelTrain(BelowOrEqual(scores, pct))]
    /\ UNCHANGED <<scores, otherThanCut>>

NextCut ==
    \/ TrainCut
    \/ PredictCut
    \/ ComboCut

SpecCut == InitCut /\ [][NextCut]_vars

\* rows the cut labelled anomalous
NumAnomalous == Cardinality({i \in DOMAIN cut.label : cut.label[i] = -1})

\* C14: the number of rows labelled anomalous differs from threshold_pct/100
\* times the number of rows by at most one row, ties included (all rows
\* equal, a single row).
C14_CountWithinOneRow ==
    cut.by # "none" =>
        /\ 100 * NumAnomalous - cut.pct * Len(scores) <= 100
        /\ cut.pct * Len(scores) - 100 * NumAnomalous <= 100

----------------------------------------------------------------------------
(* monthly_change as each path computes it: add_features of the scripts     *)
(* (tune_and_train.py stands for train_model.py, generate_top50.py, too),   *)
(* and the endpoints of backend/main.py and backend/api/customers.py, fed   *)
(* from the table (NEON_CONN set) or from the local dataset.                *)

\* rows of the dataset: (customer, month) pairs are distinct, the stored
\* order is any
StoredRows == [customer_id : 1..2, month : 1..MaxMonthsPer, consumption_kwh : {10, 30}]

Datasets ==
    {d \in UNION {[1..n -> StoredRows] : n \in 1..MaxFeatRows} :
        \A i \in DOMAIN d, j \in DOMAIN d :
            (d[i].customer_id = d[j].customer_id /\ d[i].month = d[j].month) => i = j}

\* df.groupby("customer_id")["consumption_kwh"].diff().fillna(0): the
\* difference to the previous row of the same customer in frame order
GroupDiff(d) ==
    [i \in DOMAIN d |->
        LET prev == {j \in 1..(i - 1) : d[j].customer_id = d[i].customer_id}
        IN  IF prev = {} THEN 0
            ELSE d[i].consumption_kwh - d[Max(prev)].consumption_kwh]

\* df["consumption_kwh"].diff().fillna(0): the difference to the previous row
PlainDiff(d) ==
    [i \in DOMAIN d |->
        IF i = 1 THEN 0 ELSE d[i].consumption_kwh - d[i - 1].consumption_kwh]

\* the frame with its monthly_change column
WithChange(d, change) ==
    [i \in DOMAIN d |->
        [customer_id |-> d[i].customer_id, month |-> d[i].month,
         consumption_kwh |-> d[i].consumption_kwh, monthly_change |-> change[i]]]

\* df[df["customer_id"] == cust_id], and WHERE customer_id = %s
RowsOf(d, cust) == SelectSeq(d, LAMBDA r : r.customer_id = cust)

\* ORDER BY month
ByMonth(d) == SortSeq(d, LAMBDA a, b : a.month < b.month)

\* ORDER BY month DESC: the order of rows of the same month is the table's
ByMonthDesc(d) ==
    {s \in {[i \in DOMAIN d |-> d[p[i]]] : p \in Permutations(DOMAIN d)} :
        \A i \in 1..(Len(s) - 1) : s[i].month >= s[i + 1].month}

NoFeat == [by |-> "none", source |-> "none", rows |-> <<>>]

InitFeat ==
    /\ fstore \in Datasets
    /\ fout = NoFeat
    /\ ScoreIdle
    /\ GridIdle
    /\ ServeIdle
    /\ InjectIdle
    /\ TrainRunIdle
    /\ CutIdle
    /\ SplitIdle
    /\ ParamsIdle
    /\ LogIdle
    /\ UploadIdle
    /\ RefeatIdle
    /\ FrameIdle
    /\ ReasonIdle
    /\ BackendIdle
    /\ PipelineIdle

\* tune_and_train.py add_features, lines 38-42
ScriptAddFeatures ==
    /\ fout = NoFeat
    /\ LET d == SortSeq(fstore, RowBefore)
       IN  fout' = [by |-> "tune_and_train.py add_features", source |-> "local",
                    rows |-> WithChange(d, GroupDiff(d))]
    /\ UNCHANGED <<fstore, otherThanFeat>>

\* backend/main.py get_customers, lines 188-204
MainCustomersFeatures ==
    /\ fout = NoFeat
    /\ \E source \in {"table", "local"} :
          \E fetched \in IF source = "table" THEN ByMonthDesc(fstore) ELSE {fstore} :
             LET d == SortSeq(fetched, RowBefore)
             IN  fout' = [by |-> "backend/main.py /customers", source |-> source,
                          rows |-> WithChange(d, GroupDiff(d))]
    /\ UNCHANGED <<fstore, otherThanFeat>>

\* backend/main.py get_customer, lines 237-252
MainCustomerFeatures ==
    /\ fout = NoFeat
    /\ \E source \in {"table", "local"}, cust_id \in 1..2 :
          LET d == IF source = "table" THEN ByMonth(RowsOf(fstore, cust_id))
                   ELSE RowsOf(fstore, cust_id)
          IN  /\ d # <<>>
              /\ fout' = [by |-> "backend/main.py /customer/{cust_id}", source |-> source,
                          rows |-> WithChange(d, PlainDiff(d))]
    /\ UNCHANGED <<fstore, otherThanFeat>>

\* backend/api/customers.py get_customers, lines 35-51
ApiCustomersFeatures ==
    /\ fout = NoFeat
    /\ \E source \in {"table", "local"} :
          \E d \in IF source = "table" THEN ByMonthDesc(fstore) ELSE {fstore} :
             fout' = [by |-> "backend/api/customers.py /", source |-> source,
                      rows |-> WithChange(d, GroupDiff(d))]
    /\ UNCHANGED <<fstore, otherThanFeat>>

\* backend/api/customers.py get_customer_detail, lines 73-89
ApiCustomerDetailFeatures ==
    /\ fout = NoFeat
    /\ \E source \in {"table", "local"}, customer_id \in 1..2 :
          LET d == IF source = "table" THEN ByMonth(RowsOf(fstore, customer_id))
                   ELSE RowsOf(fstore, customer_id)
          IN  /\ d # <<>>
              /\ fout' = [by |-> "backend/api/customers.py /{customer_id}", source |-> source,
                          rows |-> WithChange(d, PlainDiff(d))]
    /\ UNCHANGED <<fstore, otherThanFeat>>

NextFeat ==
    \/ ScriptAddFeatures
    \/ MainCustomersFeatures
    \/ MainCustomerFeatures
    \/ ApiCustomersFeatures
    \/ ApiCustomerDetailFeatures

SpecFeat == InitFeat /\ [][NextFeat]_vars

\* the rows of the frame of the same customer with an earlier month
EarlierRows(d, i) ==
    {j \in DOMAIN d : d[j].customer_id = d[i].customer_id /\ d[j].month < d[i].month}

\* C15: in every path monthly_change is 0 on a customer's earliest month and,
\* on a later month, consumption_kwh minus the consumption_kwh of the
\* customer's immediately preceding month.
C15_ChangeFromPrecedingMonth ==
    fout.by # "none" =>
        \A i \in DOMAIN fout.rows :
            LET d == fout.rows
                before == EarlierRows(d, i)
            IN  IF before = {} THEN d[i].monthly_change = 0
                ELSE LET j == CHOOSE k \in before : \A l \in before : d[l].month <= d[k].month
                     IN  d[i].monthly_change = d[i].consumption_kwh - d[j].consumption_kwh

----------------------------------------------------------------------------
(* tune_and_train.py: split_by_customer.  A row carries rid, its position   *)
(* in the frame passed in; reset_index does not change the other columns.   *)

\* a slip: at least one train customer, the count rounded
SplitCountRounded(n, frac) == RoundedCount(n, frac)

\* k = int(len(customers) * train_frac)
SplitCount(n, frac) == (n * frac) \div 100

\* train_frac: the default 0.7 (the script's call), and a half
TrainFracVals == {70, 50}

SplitFrames ==
    UNION {{[i \in 1..n |-> [rid |-> i, customer_id |-> c[i]]] : c \in [1..n -> 1..3]}
           : n \in 1..MaxSplitRows}

InitSplit ==
    /\ sdf \in SplitFrames
    /\ sfrac \in TrainFracVals
    /\ sout = <<>>
    /\ ScoreIdle
    /\ GridIdle
    /\ ServeIdle
    /\ InjectIdle
    /\ TrainRunIdle
    /\ CutIdle
    /\ FeatIdle
    /\ ParamsIdle
    /\ LogIdle
    /\ UploadIdle
    /\ RefeatIdle
    /\ FrameIdle
    /\ ReasonIdle
    /\ BackendIdle
    /\ PipelineIdle

\* lines 48-56: rng.permutation(customers) is any order of the customers
SplitByCustomer ==
    /\ sout = <<>>
    /\ LET customers == {sdf[i].customer_id : i \in DOMAIN sdf}
           k == SplitCount(Cardinality(customers), sfrac)
       IN  \E train_cust \in {T \in SUBSET customers : Cardinality(T) = k} :
              sout' = [train_df |-> SelectSeq(sdf, LAMBDA r : r.customer_id \in train_cust),
                       val_df |-> SelectSeq(sdf, LAMBDA r : r.customer_id \notin train_cust)]
    /\ UNCHANGED <<sdf, sfrac, otherThanSplit>>

NextSplit ==
    \/ SplitByCustomer

SpecSplit == InitSplit /\ [][NextSplit]_vars

CustomersIn(d) == {d[i].customer_id : i \in DOMAIN d}

Occurrences(d, rid) == Cardinality({i \in DOMAIN d : d[i].rid = rid})

\* C16: split_by_customer returns partitions with no customer in both, every
\* input row in exactly one of them, and the train partition holding all rows
\* of exactly floor(train_frac * number of customers) customers.
C16_SplitIsByCustomer ==
    sout # <<>> =>
        /\ CustomersIn(sout.train_df) \cap CustomersIn(sout.val_df) = {}
        /\ \A i \in DOMAIN sdf :
              Occurrences(sout.train_df, sdf[i].rid) + Occurrences(sout.val_df, sdf[i].rid) = 1
        /\ Len(sout.train_df) + Len(sout.val_df) = Len(sdf)
        /\ Cardinality(CustomersIn(sout.train_df)) = (Cardinality(CustomersIn(sdf)) * sfrac) \div 100

\* C16 witness: three customers split at 0.7, two of them in train with
\* several rows, the third in validation.
C16_Witness ==
    /\ sout # <<>>
    /\ sfrac = 70
    /\ Cardinality(CustomersIn(sout.train_df)) = 2
    /\ Len(sout.train_df) >= 3
    /\ sout.val_df # <<>>

----------------------------------------------------------------------------
(* tune_model.py dumps the parameters of its best trial to best_params.pkl; *)
(* train_model.py and evaluate_and_log.py load the file, if there, before   *)
(* they score.                                                              *)

\* study.best_params: the keys the scoring could read
TunedParams == [alpha : AlphaVals \ {DEFAULT_ALPHA}, under_cutoff : UnderVals, over_cutoff : OverVals]

InitParams ==
    /\ df \in ScoreBatches
    /\ run = "none"
    /\ out = NoOut
    /\ pkl = NoParams
    /\ GridIdle
    /\ ServeIdle
    /\ InjectIdle
    /\ TrainRunIdle
    /\ CutIdle
    /\ FeatIdle
    /\ SplitIdle
    /\ LogIdle
    /\ UploadIdle
    /\ RefeatIdle
    /\ FrameIdle
    /\ ReasonIdle
    /\ BackendIdle
    /\ PipelineIdle

\* tune_model.py lines 93-104: the best trial is whichever scored highest
TuneModelDump ==
    /\ run = "none"
    /\ \E best_params \in TunedParams : pkl' = best_params
    /\ UNCHANGED <<df, run, out, otherThanScoreParams>>

\* best_params.get("alpha", 0.5) of the file loaded, or of the defaults
LoadedAlpha == IF pkl = NoParams THEN DEFAULT_ALPHA ELSE pkl.alpha

\* train_model.py lines 57-125
TrainModelAfterTune ==
    /\ run = "none"
    /\ out' = TrainModel(df, LoadedAlpha)
    /\ run' = "train_model"
    /\ UNCHANGED <<df, pkl, otherThanScoreParams>>

\* evaluate_and_log.py lines 34-87
EvaluateAfterTune ==
    /\ run = "none"
    /\ out' = EvaluateAndLog(df, LoadedAlpha)
    /\ run' = "evaluate_and_log"
    /\ UNCHANGED <<df, pkl, otherThanScoreParams>>

NextParams ==
    \/ TuneModelDump
    \/ TrainModelAfterTune
    \/ EvaluateAfterTune

SpecParams == InitParams /\ [][NextParams]_vars

\* C17: the alpha, under_cutoff and over_cutoff that tune_model.py persisted
\* are the values the next run of train_model.py or evaluate_and_log.py
\* applies in combined_score and rule_flag.
C17_TunedParamsAreApplied ==
    (run \in {"train_model", "evaluate_and_log"} /\ pkl # NoParams) =>
        LET rule_flag == RuleFlag(Col(df, "ratio"), pkl.under_cutoff, pkl.over_cutoff)
        IN  /\ out.rule_flag = rule_flag
            /\ out.final_score =
                  FinalScore(Col(df, "iso"), LofPred(Col(df, "lofd")), pkl.alpha, rule_flag)

----------------------------------------------------------------------------
(* evaluate_and_log.py, step 9: the metrics log.  A run reads the whole     *)
(* file, concatenates its row and writes the file anew; to_csv opens the    *)
(* file for writing, which empties it, then writes the frame.  Runs are     *)
(* separate processes; nothing in the script keeps two from overlapping.    *)
(* A row of the log is the number of the run it belongs to (0: a row the    *)
(* file held before); read_csv and to_csv return the five columns of a row  *)
(* as written.                                                              *)

EvalRuns == 1..MaxEvalRuns

NoLogFile == [exists |-> FALSE, rows |-> <<>>]

InitLog ==
    /\ logf \in {NoLogFile, [exists |-> TRUE, rows |-> <<0>>]}
    /\ evals = [r \in EvalRuns |-> [pc |-> "scoring", log |-> <<>>]]
    /\ completed = <<>>
    /\ ScoreIdle
    /\ GridIdle
    /\ ServeIdle
    /\ InjectIdle
    /\ TrainRunIdle
    /\ CutIdle
    /\ FeatIdle
    /\ SplitIdle
    /\ ParamsIdle
    /\ UploadIdle
    /\ RefeatIdle
    /\ FrameIdle
    /\ ReasonIdle
    /\ BackendIdle
    /\ PipelineIdle

\* lines 143-155: new_log, and the file read if it exists
ReadLog(r) ==
    /\ evals[r].pc = "scoring"
    /\ ~(logf.exists /\ logf.rows = <<>>)
    /\ evals' = [evals EXCEPT ![r] = [pc |-> "read",
                                      log |-> IF logf.exists THEN Append(logf.rows, r) ELSE <<r>>]]
    /\ UNCHANGED <<logf, completed, otherThanLog>>

\* line 152 on a file another run has opened and not yet written:
\* pd.read_csv raises EmptyDataError and the run ends
ReadLogRaises(r) ==
    /\ evals[r].pc = "scoring"
    /\ logf.exists /\ logf.rows = <<>>
    /\ evals' = [evals EXCEPT ![r] = [pc |-> "failed", log |-> <<>>]]
    /\ UNCHANGED <<logf, completed, otherThanLog>>

\* line 157, to_csv opening the file
OpenLog(r) ==
    /\ evals[r].pc = "read"
    /\ logf' = [exists |-> TRUE, rows |-> <<>>]
    /\ evals' = [evals EXCEPT ![r].pc = "opened"]
    /\ UNCHANGED <<completed, otherThanLog>>

\* line 157, to_csv writing the frame; lines 158-159
WriteLog(r) ==
    /\ evals[r].pc = "opened"
    /\ logf' = [exists |-> TRUE, rows |-> evals[r].log]
    /\ evals' = [evals EXCEPT ![r].pc = "done"]
    /\ completed' = Append(completed, r)
    /\ UNCHANGED otherThanLog

NextLog ==
    \/ \E r \in EvalRuns : ReadLog(r)
    \/ \E r \in EvalRuns : ReadLogRaises(r)
    \/ \E r \in EvalRuns : OpenLog(r)
    \/ \E r \in EvalRuns : WriteLog(r)

SpecLog == InitLog /\ [][NextLog]_vars

\* C18: each completed run of evaluate_and_log.py leaves metrics_log.csv
\* holding all previously logged rows, unchanged and in order, followed by
\* exactly one new row for this run; no run removes or rewrites an earlier
\* entry.
C18_LogIsAppendOnly ==
    [][\A r \in EvalRuns :
          (evals[r].pc # "done" /\ evals'[r].pc = "done") =>
              \E before \in {<<>>, <<0>>} :
                 /\ logf'.rows = before \o completed'
                 /\ completed' = Append(completed, r)]_vars

----------------------------------------------------------------------------
(* backend/main.py: upload_dataset.  A file is what pandas.read_csv makes   *)
(* of it: whether it parses, the columns of its header and its rows, of     *)
(* which the month values are carried.                                      *)

\* backend/main.py line 153: required
Required == {"customer_id", "month", "consumption_kwh", "billed_kwh", "consumer_category"}

\* the required columns in the order sorted() gives them
RequiredSorted ==
    <<"billed_kwh", "consumer_category", "consumption_kwh", "customer_id", "month">>

\* month values of an uploaded file: a date, and a text that is no date
MonthTexts == {"2024-01-05", "bad"}

NoFile == [parses |-> FALSE, cols |-> {}, months |-> <<>>]

\* an empty file: pd.read_csv raises EmptyDataError
EmptyFile == NoFile

\* the files a client can upload: the empty file, and tables with any subset
\* of the required columns
UploadFiles ==
    {EmptyFile} \cup
    [parses : {TRUE}, cols : SUBSET Required,
     months : UNION {[1..n -> MonthTexts] : n \in 0..MaxUploadRows}]

\* df.to_csv(path) truncates the file and writes the frame
StoreAlways(stored, frame, missing) == frame

\* missing = required - set(df.columns)
MissingColumns(cols) == Required \ cols

\* pd.to_datetime(df["month"], errors="coerce"), as to_csv writes it: a text
\* that is no date becomes NaT, written as the empty field
ToDatetimeCoerce(months) ==
    [i \in DOMAIN months |-> IF months[i] = "bad" THEN "" ELSE months[i]]

\* if missing: return ...; otherwise df.to_csv(LOCAL_DATA_PATH, index=False)
StoreUnlessMissing(stored, frame, missing) == IF missing # {} THEN stored ELSE frame

NoUploadResp == [kind |-> "none", text |-> "none", names |-> <<>>, rows |-> 0]

InitUpload ==
    /\ lfile \in {NoFile} \cup
                 {[f EXCEPT !.months = ToDatetimeCoerce(f.months)] :
                    f \in {g \in UploadFiles : g.parses /\ MissingColumns(g.cols) = {}}}
    /\ upl = NoFile
    /\ uresp = NoUploadResp
    /\ ScoreIdle
    /\ GridIdle
    /\ ServeIdle
    /\ InjectIdle
    /\ TrainRunIdle
    /\ CutIdle
    /\ FeatIdle
    /\ SplitIdle
    /\ ParamsIdle
    /\ LogIdle
    /\ RefeatIdle
    /\ FrameIdle
    /\ ReasonIdle
    /\ BackendIdle
    /\ PipelineIdle

\* upload_dataset(file): the whole handler
UploadDataset ==
    \E file \in UploadFiles :
        LET missing == MissingColumns(file.cols)
            frame   == [file EXCEPT !.months = ToDatetimeCoerce(file.months)]
        IN  /\ upl' = file
            /\ IF ~file.parses
               THEN \* except Exception as e: return {"error": f"Upload failed: {e}"}
                    /\ uresp' = [NoUploadResp EXCEPT !.kind = "error", !.text = "Upload failed"]
                    /\ lfile' = lfile
               ELSE /\ uresp' =
                         IF missing # {}
                         THEN [NoUploadResp EXCEPT
                                 !.kind = "error", !.text = "Missing columns",
                                 !.names = SelectSeq(RequiredSorted, LAMBDA c : c \in missing)]
                         ELSE [NoUploadResp EXCEPT
                                 !.kind = "message", !.text = "Dataset uploaded successfully",
                                 !.rows = Len(file.months)]
                    /\ lfile' = StoreUnlessMissing(lfile, frame, missing)
            /\ UNCHANGED otherThanUpload

NextUpload == UploadDataset

SpecUpload == InitUpload /\ [][NextUpload]_vars

\* the response is an error that names exactly the columns `missing`
NamesMissing(r, missing) ==
    /\ r.kind = "error"
    /\ r.text = "Missing columns"
    /\ {r.names[i] : i \in DOMAIN r.names} = missing

\* C20 as stated: upload_dataset, given a file that lacks any of the required
\* columns, returns an error that names the missing columns and leaves the
\* stored local dataset file unchanged.
C20_MissingColumnsNamed ==
    [][MissingColumns(upl'.cols) # {} =>
          /\ NamesMissing(uresp', MissingColumns(upl'.cols))
          /\ lfile' = lfile]_vars

\* C20, for the files read_csv parses: upload_dataset, given a file that
\* read_csv parses into a table lacking required columns, returns the
\* "Missing columns" error naming them, sorted; given a file read_csv cannot
\* parse, it returns the "Upload failed" error, which names no column; in
\* both cases the stored local dataset file is unchanged.
C20_ParsedFileMissingColumnsNamed ==
    [][MissingColumns(upl'.cols) # {} =>
          /\ upl'.parses => /\ NamesMissing(uresp', MissingColumns(upl'.cols))
                            /\ \A i, j \in DOMAIN uresp'.names :
                                  i < j => \E a, b \in DOMAIN RequiredSorted :
                                              /\ a < b
                                              /\ RequiredSorted[a] = uresp'.names[i]
                                              /\ RequiredSorted[b] = uresp'.names[j]
          /\ ~upl'.parses => /\ uresp'.kind = "error"
                             /\ uresp'.text = "Upload failed"
                             /\ uresp'.names = <<>>
          /\ lfile' = lfile]_vars

\* a parsed upload lacking columns was refused while a stored dataset exists
C20_Witness ==
    /\ upl.parses
    /\ MissingColumns(upl.cols) # {}
    /\ uresp.kind = "error"
    /\ Len(uresp.names) > 1
    /\ lfile # NoFile

----------------------------------------------------------------------------
(* add_features of train_model.py and of tune_and_train.py, applied to the  *)
(* frame it returned.  A row keeps its index label (rid); ratio and cat_dev *)
(* are exact fractions <<numerator, denominator>>.                          *)

\* the derived columns of a frame that was never featured
Unfeatured == [ratio |-> <<0, 1>>, monthly_change |-> 0, cat_dev |-> <<0, 1>>, billing_gap |-> 0]

RefeatRaw ==
    [customer_id : 1..2, month : 1..2, consumer_category : {"Residential", "Commercial"},
     consumption_kwh : {10, 30}, billed_kwh : {5}]

\* the frames read: rows in any order, two rows of one customer and month included
RefeatFrames ==
    UNION {{[i \in 1..n |-> [rid |-> i, raw |-> r[i], derived |-> Unfeatured]] : r \in [1..n -> RefeatRaw]}
           : n \in 1..MaxRefeatRows}

\* groupby("customer_id")["consumption_kwh"].diff() with what the column held
\* before added to it
DiffOntoOld(s, i) ==
    s[i].derived.monthly_change +
        (IF i > 1 /\ s[i - 1].raw.customer_id = s[i].raw.customer_id
         THEN s[i].raw.consumption_kwh - s[i - 1].raw.consumption_kwh
         ELSE 0)

\* sort_values(["customer_id", "month"]) sorts on several columns with a
\* stable sort: rows of equal keys keep their order
RECURSIVE StableInsert(_, _)
StableInsert(s, r) ==
    IF s = <<>> THEN <<r>>
    ELSE IF RowBefore(r.raw, s[Len(s)].raw)
         THEN Append(StableInsert(SubSeq(s, 1, Len(s) - 1), r), s[Len(s)])
         ELSE Append(s, r)

RECURSIVE StableSort(_)
StableSort(s) ==
    IF s = <<>> THEN <<>>
    ELSE StableInsert(StableSort(SubSeq(s, 1, Len(s) - 1)), s[Len(s)])

\* groupby("customer_id")["consumption_kwh"].diff().fillna(0) at row i of the
\* sorted frame
GroupDiffAt(s, i) ==
    IF i > 1 /\ s[i - 1].raw.customer_id = s[i].raw.customer_id
    THEN s[i].raw.consumption_kwh - s[i - 1].raw.consumption_kwh
    ELSE 0

\* consumption_kwh - groupby("consumer_category")["consumption_kwh"].transform("mean")
CatDevAt(s, i) ==
    LET same == SelectSeq(s, LAMBDA r : r.raw.consumer_category = s[i].raw.consumer_category)
        total == Total([k \in DOMAIN same |-> same[k].raw.consumption_kwh])
    IN  <<Len(same) * s[i].raw.consumption_kwh - total, Len(same)>>

\* add_features(df): every derived column is assigned from the raw columns
\* of the sorted copy
AddFeaturesAgain(frame) ==
    LET s == StableSort(frame)
    IN  [i \in DOMAIN s |->
            [s[i] EXCEPT !.derived =
                [ratio |-> <<s[i].raw.billed_kwh, s[i].raw.consumption_kwh + 1>>,
                 monthly_change |-> GroupDiffAt(s, i),
                 cat_dev |-> CatDevAt(s, i),
                 billing_gap |-> s[i].raw.consumption_kwh - s[i].raw.billed_kwh]]]

InitRefeat ==
    /\ adf \in RefeatFrames
    /\ afirst = <<>>
    /\ napp = 0
    /\ ScoreIdle
    /\ GridIdle
    /\ ServeIdle
    /\ InjectIdle
    /\ TrainRunIdle
    /\ CutIdle
    /\ FeatIdle
    /\ SplitIdle
    /\ ParamsIdle
    /\ LogIdle
    /\ UploadIdle
    /\ FrameIdle
    /\ ReasonIdle
    /\ BackendIdle
    /\ PipelineIdle

ApplyAddFeatures ==
    /\ napp < MaxApplications
    /\ adf' = AddFeaturesAgain(adf)
    /\ afirst' = IF napp = 0 THEN AddFeaturesAgain(adf) ELSE afirst
    /\ napp' = napp + 1
    /\ UNCHANGED otherThanRefeat

\* train_model.py add_features
TrainAddFeatures == ApplyAddFeatures

\* tune_and_train.py add_features: the same statements
TuneAddFeatures == ApplyAddFeatures

NextRefeat ==
    \/ TrainAddFeatures
    \/ TuneAddFeatures

SpecRefeat == InitRefeat /\ [][NextRefeat]_vars

\* the derived columns of the row of index label rid
DerivedOf(frame, rid) == frame[CHOOSE i \in DOMAIN frame : frame[i].rid = rid].derived

\* C21: applying add_features to a batch that already carries the derived
\* columns, with the raw columns unchanged, yields the same ratio,
\* monthly_change, cat_dev and billing_gap for every row as the first
\* application.
C21_AddFeaturesIdempotent ==
    napp >= 2 =>
        /\ DOMAIN adf = DOMAIN afirst
        /\ \A i \in DOMAIN adf : DerivedOf(adf, i) = DerivedOf(afirst, i)

\* C21 witness: add_features was applied again to a frame whose rows the
\* first application had reordered and given a monthly change
C21_Witness ==
    /\ napp >= 2
    /\ Len(adf) >= 2
    /\ adf[1].rid # 1
    /\ \E i \in DOMAIN adf : adf[i].derived.monthly_change # 0

----------------------------------------------------------------------------
(* utils/synthetic.py on a featured batch, values carried: what the call    *)
(* does to the caller's batch and what the returned batch holds.            *)

\* dataset files of two customers and two months, a (customer, month) pair
\* possibly on several rows
FrameFiles ==
    UNION {[1..n -> [customer_id : {1, 2}, month : {1, 2},
                     consumption_kwh : {99}, billed_kwh : {100, 2}]]
           : n \in 1..MaxFrameRows}

\* the fractions of a call: the defaults, and every month of a chosen customer
FrameFracs == {DefaultFracs, [customer_frac |-> 10, months_frac |-> 100]}

\* what np.random.uniform drew for the row's first and second multiplier
FrameDraws == {<<0, 1>>, <<1, 0>>}

\* the function without line 13: it writes to the caller's batch
WithoutCopy(input, work) == work

\* line 13, df = df.copy(): the function's writes go to a copy, the caller's
\* batch stays as it is
CallerBatchAfter(input, work) == input

\* line 14, df["is_synthetic"] = 0, on the copy
WithIsSynthetic(d) ==
    [i \in DOMAIN d |->
        [customer_id |-> d[i].customer_id, month |-> d[i].month,
         consumption_kwh |-> d[i].consumption_kwh, billed_kwh |-> d[i].billed_kwh,
         ratio |-> d[i].ratio, monthly_change |-> d[i].monthly_change,
         cat_dev |-> d[i].cat_dev, billing_gap |-> d[i].billing_gap,
         is_synthetic |-> 0, mode |-> "none"]]

InitFrame ==
    /\ jorig \in {AddFeatures(f) : f \in FrameFiles}
    /\ jin = jorig
    /\ jout = <<>>
    /\ jsel = {}
    /\ ScoreIdle
    /\ GridIdle
    /\ ServeIdle
    /\ InjectIdle
    /\ TrainRunIdle
    /\ CutIdle
    /\ FeatIdle
    /\ SplitIdle
    /\ ParamsIdle
    /\ LogIdle
    /\ UploadIdle
    /\ RefeatIdle
    /\ ReasonIdle
    /\ BackendIdle
    /\ PipelineIdle

\* inject_synthetic_anomalies_per_customer(df, customer_frac, months_frac, seed)
InjectFrame ==
    /\ jout = <<>>
    /\ \E fr \in FrameFracs :
       \E chosen_customers \in SUBSET UniqueCustomers(Pairs(jin)) :
          /\ Cardinality(chosen_customers) =
                TruncatedCount(Cardinality(UniqueCustomers(Pairs(jin))), fr.customer_frac)
          /\ \E chosen_months \in [chosen_customers -> SUBSET {1, 2}] :
                /\ \A c \in chosen_customers :
                      /\ chosen_months[c] \subseteq MonthsOf(Pairs(jin), c)
                      /\ Cardinality(chosen_months[c]) =
                            TruncatedCount(Cardinality(MonthsOf(Pairs(jin), c)), fr.months_frac)
                /\ LET rows == UNION {{FirstRow(jin, c, mon) : mon \in chosen_months[c]}
                                      : c \in chosen_customers}
                       copy == WithIsSynthetic(jin)
                   IN  \E mode \in [rows -> Modes], u \in [rows -> FrameDraws] :
                          LET work == [i \in DOMAIN copy |->
                                         IF i \in rows THEN ApplyMode(copy[i], mode[i], u[i])
                                         ELSE copy[i]]
                          IN  /\ jout' = work
                              /\ jin' = CallerBatchAfter(jin, [i \in DOMAIN work |-> [c \in DOMAIN jin[i] |-> work[i][c]]])
                              /\ jsel' = rows
    /\ UNCHANGED <<jorig, otherThanFrame>>

NextFrame == InjectFrame

SpecFrame == InitFrame /\ [][NextFrame]_vars

\* the raw columns a mode writes
ColumnsOfMode(mode) ==
    CASE mode = "underbilling" -> {"billed_kwh"}
      [] mode = "spike" -> {"consumption_kwh"}
      [] mode = "flatline" -> {"consumption_kwh"}
      [] mode = "zero_consumption" -> {"consumption_kwh", "billed_kwh"}
      [] mode = "seasonal_shift" -> {"consumption_kwh", "billed_kwh"}
      [] OTHER -> {}

\* C24: inject_synthetic_anomalies_per_customer leaves its input batch
\* unmodified and, in its output, changes only is_synthetic and the raw
\* column(s) of the chosen mode on the selected rows (underbilling: billed_kwh
\* only; spike and flatline: consumption_kwh only; zero_consumption and
\* seasonal_shift: both); every unselected row and every other column,
\* including the derived ratio, monthly_change, cat_dev and billing_gap of
\* corrupted rows, keeps its input value.
C24_OnlyModeColumnsChange ==
    jout # <<>> =>
        /\ jin = jorig
        /\ DOMAIN jout = DOMAIN jorig
        /\ \A i \in DOMAIN jout :
              /\ jout[i].is_synthetic = (IF i \in jsel THEN 1 ELSE 0)
              /\ \A c \in DOMAIN jorig[i] :
                    jout[i][c] # jorig[i][c] =>
                        /\ i \in jsel
                        /\ c \in ColumnsOfMode(jout[i].mode)

\* C24 witness: a returned batch with a corrupted row whose both raw columns
\* changed, and an untouched row
C24_Witness ==
    /\ jout # <<>>
    /\ \E i \in jsel :
          /\ jout[i].consumption_kwh # jorig[i].consumption_kwh
          /\ jout[i].billed_kwh # jorig[i].billed_kwh
          /\ jorig[i].ratio # 0
    /\ \E i \in DOMAIN jout : i \notin jsel

----------------------------------------------------------------------------
(* backend/main.py: generate_reason.  A field of the row is a number, is    *)
(* missing from the row, or holds what float() or int() cannot convert.     *)
(* ratio is in hundredths.                                                  *)

Num(v) == [kind |-> "num", v |-> v]

MissingField == [kind |-> "missing", v |-> 0]

BadField == [kind |-> "bad", v |-> 0]

\* the label test with every label other than 1 taken for an anomaly
NotNormalLabel(label) == label # 1

\* float(row.get(key, default)) / int(row.get(key, default)) on a field that
\* converts
Converted(field, default) == IF field.kind = "missing" THEN default ELSE field.v

\* if label == -1:
LabelIsAnomaly(label) == label = -1

AnomalyReasons == {"Underbilling anomaly", "Overbilling anomaly", "Sudden rise", "Sudden drop",
                   "AI detected anomaly"}

NormalReasons == {"Stable usage", "Noticeable increase", "Noticeable decrease", "Mild variation"}

ReasonRows ==
    [ratio : {Num(84), Num(85), Num(100), Num(130), Num(131), MissingField, BadField},
     monthly_change : {Num(-5), Num(0), Num(1), Num(4), Num(5), BadField},
     consumption_kwh : {Num(10), MissingField},
     anomaly_score : {Num(0), BadField},
     anomaly_label : {Num(-1), Num(1), Num(0), MissingField, BadField}]

\* generate_reason(row)
GenerateReason(row) ==
    IF \E f \in DOMAIN row : row[f].kind = "bad"
    THEN "Insufficient data"
    ELSE LET ratio  == Converted(row.ratio, 100)
             change == Converted(row.monthly_change, 0)
             cons   == Converted(row.consumption_kwh, 0)
             label  == Converted(row.anomaly_label, 1)
         IN  IF LabelIsAnomaly(label)
             THEN IF ratio < UNDER_CUTOFF THEN "Underbilling anomaly"
                  ELSE IF ratio > OVER_CUTOFF THEN "Overbilling anomaly"
                  ELSE IF 10 * Abs(change) > 4 * cons
                       THEN IF change > 0 THEN "Sudden rise" ELSE "Sudden drop"
                  ELSE "AI detected anomaly"
             ELSE IF 90 <= ratio /\ ratio <= 120 /\ 10 * Abs(change) <= cons
                  THEN "Stable usage"
                  ELSE IF 10 * Abs(change) > 3 * cons
                       THEN IF change > 0 THEN "Noticeable increase" ELSE "Noticeable decrease"
                  ELSE "Mild variation"

InitReason ==
    /\ grow \in ReasonRows
    /\ greason = "none"
    /\ ScoreIdle
    /\ GridIdle
    /\ ServeIdle
    /\ InjectIdle
    /\ TrainRunIdle
    /\ CutIdle
    /\ FeatIdle
    /\ SplitIdle
    /\ ParamsIdle
    /\ LogIdle
    /\ UploadIdle
    /\ RefeatIdle
    /\ FrameIdle
    /\ BackendIdle
    /\ PipelineIdle

\* a call of generate_reason: from get_customers (agg.apply), get_customer
\* (the latest row) or predict
CallGenerateReason ==
    /\ \E row \in ReasonRows :
          /\ grow' = row
          /\ greason' = GenerateReason(row)
    /\ UNCHANGED otherThanReason

NextReason == CallGenerateReason

SpecReason == InitReason /\ [][NextReason]_vars

\* the row's fields all convert
Parsable(row) == \A f \in DOMAIN row : row[f].kind # "bad"

\* C25: generate_reason returns one of the anomaly reasons exactly when the
\* row's anomaly_label is -1, choosing underbilling if ratio < 0.85, else
\* overbilling if ratio > 1.3, else sudden rise/drop if |monthly_change| >
\* 0.4 * consumption_kwh, else the generic AI-anomaly reason; for any other
\* label it returns one of the three normal reasons whatever the ratio; on
\* unparsable input it returns the insufficient-data reason instead of
\* raising.
C25_ReasonFollowsLabel ==
    greason # "none" =>
        IF ~Parsable(grow) THEN greason = "Insufficient data"
        ELSE LET ratio  == IF grow.ratio.kind = "missing" THEN 100 ELSE grow.ratio.v
                 change == grow.monthly_change.v
                 cons   == grow.consumption_kwh.v
                 label  == IF grow.anomaly_label.kind = "missing" THEN 1 ELSE grow.anomaly_label.v
             IN  /\ greason \in AnomalyReasons <=> label = -1
                 /\ label # -1 => greason \in NormalReasons
                 /\ label = -1 =>
                       /\ ratio < 85 => greason = "Underbilling anomaly"
                       /\ (ratio >= 85 /\ ratio > 130) => greason = "Overbilling anomaly"
                       /\ (ratio >= 85 /\ ratio <= 130 /\ 10 * Abs(change) > 4 * cons) =>
                             greason \in {"Sudden rise", "Sudden drop"}
                       /\ (ratio >= 85 /\ ratio <= 130 /\ 10 * Abs(change) <= 4 * cons) =>
                             greason = "AI detected anomaly"

\* C25 witness: a row labelled -1 with a ratio between the cutoffs got the
\* sudden-drop reason
C25_Witness ==
    /\ greason = "Sudden drop"
    /\ grow.anomaly_label = Num(-1)
    /\ grow.ratio = Num(100)

----------------------------------------------------------------------------
(* backend/main.py: the local dataset of the process and the data           *)
(* endpoints.  A dataset is the customers it has rows for and the version   *)
(* of the file it came from: 0 for the file found at import, then one more  *)
(* for every successful upload.  The database answers with version DB.      *)

DB == 0 - 2

BackendCustomers == {1, 2}

\* the customers the database has rows for
DbCustomers == {1}

NoStoredFile == [exists |-> FALSE, ver |-> 0, custs |-> {}]

\* pd.DataFrame(): no columns, no rows
EmptyFrame == [columns |-> FALSE, ver |-> 0, custs |-> {}]

NoBackendResp == [by |-> "none", kind |-> "none", src |-> "none", ver |-> 0, custs |-> {},
                  failed |-> FALSE, stored |-> 0, stored_custs |-> {}]

InitBackend ==
    /\ bfile \in {NoStoredFile} \cup [exists : {TRUE}, ver : {0}, custs : SUBSET BackendCustomers]
    /\ bup = "down"
    /\ neon \in BOOLEAN
    /\ dflocal = EmptyFrame
    /\ bresp = NoBackendResp
    /\ ScoreIdle
    /\ GridIdle
    /\ ServeIdle
    /\ InjectIdle
    /\ TrainRunIdle
    /\ CutIdle
    /\ FeatIdle
    /\ SplitIdle
    /\ ParamsIdle
    /\ LogIdle
    /\ UploadIdle
    /\ RefeatIdle
    /\ FrameIdle
    /\ ReasonIdle
    /\ PipelineIdle

\* lines 45-50, at import: try: df_local = pd.read_csv(LOCAL_DATA_PATH, ...)
\* except Exception: df_local = pd.DataFrame()
LoadLocalDataset ==
    /\ bup = "down"
    /\ dflocal' = IF bfile.exists
                  THEN [columns |-> TRUE, ver |-> bfile.ver, custs |-> bfile.custs]
                  ELSE EmptyFrame
    /\ bup' = "up"
    /\ UNCHANGED <<bfile, neon, bresp, otherThanBackend>>

\* upload_dataset with a file that has the required columns: df.to_csv(
\* LOCAL_DATA_PATH); df_local is not assigned
UploadAccepted ==
    /\ bup = "up"
    /\ bfile.ver < MaxUploads
    /\ \E custs \in SUBSET BackendCustomers :
          bfile' = [exists |-> TRUE, ver |-> bfile.ver + 1, custs |-> custs]
    /\ UNCHANGED <<bup, neon, dflocal, bresp, otherThanBackend>>

\* a response with the rows of `custs` taken from `src`
DataResp(by, src, ver, custs, failed) ==
    [NoBackendResp EXCEPT !.by = by, !.kind = IF custs = {} THEN "empty" ELSE "ok",
                          !.src = IF custs = {} THEN "none" ELSE src,
                          !.ver = IF custs = {} THEN 0 ELSE ver, !.custs = custs,
                          !.failed = failed, !.stored = bfile.ver,
                          !.stored_custs = bfile.custs]

\* the request ends with an exception the handler did not catch
Raised(by, failed) ==
    [NoBackendResp EXCEPT !.by = by, !.kind = "raise", !.failed = failed,
                          !.stored = bfile.ver, !.stored_custs = bfile.custs]

\* whether the database call of a request fails (only with NEON_CONN set)
DbOutcomes == IF neon THEN BOOLEAN ELSE {FALSE}

\* get_data, lines 164-182
GetData ==
    /\ bup = "up"
    /\ \E failed \in DbOutcomes :
          bresp' = IF neon /\ ~failed
                   THEN DataResp("get_data", "db", DB, DbCustomers, failed)
                   ELSE IF ~neon /\ dflocal.columns
                        THEN DataResp("get_data", "local", dflocal.ver, dflocal.custs, failed)
                   \* except Exception: if not df_local.empty: ...; return []
                   ELSE DataResp("get_data", "local", dflocal.ver, dflocal.custs, failed)
    /\ UNCHANGED <<bfile, bup, neon, dflocal, otherThanBackend>>

\* get_customers, lines 185-200: the frame the scoring then works on
GetCustomers ==
    /\ bup = "up"
    /\ \E failed \in DbOutcomes :
          bresp' = IF neon /\ ~failed
                   THEN DataResp("get_customers", "db", DB, DbCustomers, failed)
                   ELSE DataResp("get_customers", "local", dflocal.ver, dflocal.custs, failed)
    /\ UNCHANGED <<bfile, bup, neon, dflocal, otherThanBackend>>

\* get_customer, lines 234-249: df_local[df_local["customer_id"] == cust_id]
\* raises KeyError on a frame without columns, in the else branch and again
\* in the except clause
GetCustomer ==
    /\ bup = "up"
    /\ \E failed \in DbOutcomes, cust_id \in BackendCustomers :
          bresp' = IF neon /\ ~failed
                   THEN DataResp("get_customer", "db", DB, DbCustomers \cap {cust_id}, failed)
                   ELSE IF ~dflocal.columns
                        THEN Raised("get_customer", failed)
                   ELSE DataResp("get_customer", "local", dflocal.ver,
                                 dflocal.custs \cap {cust_id}, failed)
    /\ UNCHANGED <<bfile, bup, neon, dflocal, otherThanBackend>>

NextBackend ==
    \/ LoadLocalDataset
    \/ UploadAccepted
    \/ GetData
    \/ GetCustomers
    \/ GetCustomer

SpecBackend == InitBackend /\ [][NextBackend]_vars

\* C26: in backend/main.py a failure of the primary data source never
\* propagates to the caller of /get_data, /customers or /customer/{cust_id}:
\* the response is then computed from the local dataset, and if that is empty
\* too the endpoint returns its empty result.
C26_DbFailureFallsBackToLocal ==
    bresp.failed =>
        /\ bresp.kind # "raise"
        /\ bresp.kind = "ok" => bresp.src = "local"
        /\ dflocal.custs = {} => bresp.kind = "empty"

\* C28: after upload_dataset has reported success, later /get_data,
\* /customers and /customer/{cust_id} requests of the same backend process
\* that are served from the local dataset (no database configured) return
\* data of the newly uploaded dataset, not of the dataset loaded at process
\* start.
C28_UploadedDatasetIsServed ==
    (bresp.kind # "none" /\ ~neon /\ bresp.stored >= 1) =>
        /\ bresp.kind # "raise"
        /\ bresp.kind = "ok" => bresp.ver = bresp.stored
        /\ bresp.by \in {"get_data", "get_customers"} => bresp.custs = bresp.stored_custs

----------------------------------------------------------------------------
(* pipeline.py: three os.system calls and a print.  A file is absent, old   *)
(* (left by an earlier run of the pipeline) or new (written by this run).   *)

Stages == {"train_model.py", "evaluate_and_log.py", "merge_and_analyze.py"}

\* the files a stage needs: it raises when one of them is absent
\* (train_model.py line 19; evaluate_and_log.py lines 27-31;
\* merge_and_analyze.py lines 23-24)
Needs(stage) ==
    CASE stage = "train_model.py" -> {"dummy_billing_dataset.csv"}
      [] stage = "evaluate_and_log.py" -> {"training_with_synthetics.csv", "anomaly_model.pkl"}
      [] stage = "merge_and_analyze.py" ->
            {"training_with_synthetics.csv", "top50_suspicious_customers.csv"}

\* the files a stage writes when it runs to its end
\* (train_model.py lines 136-145; evaluate_and_log.py line 139;
\* merge_and_analyze.py line 94)
Writes(stage) ==
    CASE stage = "train_model.py" ->
            {"top50_suspicious_customers.csv", "anomaly_model.pkl", "training_with_synthetics.csv"}
      [] stage = "evaluate_and_log.py" -> {"evaluation_results.csv"}
      [] stage = "merge_and_analyze.py" -> {"merged_analysis.csv"}

\* what a stage reads: what it needs, and merge_and_analyze.py the evaluation
\* results when they exist (lines 52-53)
Reads(stage) ==
    IF stage = "merge_and_analyze.py" THEN Needs(stage) \cup {"evaluation_results.csv"}
    ELSE Needs(stage)

PipelineFiles == UNION {Needs(st) \cup Writes(st) : st \in Stages}

\* train_model.py writes its three files one after the other; an earlier run
\* left all of them or none
TrainOutputs == Writes("train_model.py")

InitPipeline ==
    /\ pfiles \in {f \in [PipelineFiles -> {"absent", "old"}] :
                     \A a, b \in TrainOutputs : f[a] = f[b]}
    /\ ppc = "line 6"
    /\ pexit = [st \in Stages |-> "not run"]
    /\ pread = [st \in Stages |-> {}]
    /\ ScoreIdle
    /\ GridIdle
    /\ ServeIdle
    /\ InjectIdle
    /\ TrainRunIdle
    /\ CutIdle
    /\ FeatIdle
    /\ SplitIdle
    /\ ParamsIdle
    /\ LogIdle
    /\ UploadIdle
    /\ RefeatIdle
    /\ FrameIdle
    /\ ReasonIdle
    /\ BackendIdle

\* os.system("python <stage>"): the stage runs as a child process; it raises
\* when a file it needs is absent, and may fail for another reason before it
\* writes; the exit status os.system returns is not looked at
OsSystem(stage, at, next) ==
    /\ ppc = at
    /\ \E fails \in BOOLEAN :
          LET failed == fails \/ \E f \in Needs(stage) : pfiles[f] = "absent"
          IN  /\ pexit' = [pexit EXCEPT ![stage] = IF failed THEN "failed" ELSE "ok"]
              /\ pread' = [pread EXCEPT ![stage] = {pfiles[f] : f \in Reads(stage)}]
              /\ pfiles' = IF failed THEN pfiles
                           ELSE [f \in PipelineFiles |->
                                   IF f \in Writes(stage) THEN "new" ELSE pfiles[f]]
    /\ ppc' = next
    /\ UNCHANGED otherThanPipeline

\* line 6
RunTrainModel == OsSystem("train_model.py", "line 6", "line 7")

\* line 7
RunEvaluateAndLog == OsSystem("evaluate_and_log.py", "line 7", "line 8")

\* line 8
RunMergeAndAnalyze == OsSystem("merge_and_analyze.py", "line 8", "line 10")

\* line 10: print("Pipeline finished! All outputs are saved.")
PrintFinished ==
    /\ ppc = "line 10"
    /\ ppc' = "finished"
    /\ UNCHANGED <<pfiles, pexit, pread, otherThanPipeline>>

NextPipeline ==
    \/ RunTrainModel
    \/ RunEvaluateAndLog
    \/ RunMergeAndAnalyze
    \/ PrintFinished

SpecPipeline == InitPipeline /\ [][NextPipeline]_vars

\* the stages in the order pipeline.py starts them
StageOrder == <<"train_model.py", "evaluate_and_log.py", "merge_and_analyze.py">>

\* C29: pipeline.py prints that the pipeline finished with all outputs saved
\* only if train_model.py, evaluate_and_log.py and merge_and_analyze.py each
\* ran to successful completion, in that order; a failed stage prevents the
\* later stages from running on stale or missing outputs.
C29_FinishedOnlyAfterSuccess ==
    /\ ppc = "finished" => \A st \in Stages : pexit[st] = "ok"
    /\ \A i, j \in DOMAIN StageOrder :
          (i < j /\ pexit[StageOrder[i]] = "failed") => pexit[StageOrder[j]] = "not run"

====
